---- MODULE Spec2Model ----
(***************************************************************************)
(* Contract clause analyzer: the keyword/regex matching engine of          *)
(* app.py (Gradio), api/analyze.py and api/index.py (HTTP variants) and    *)
(* simple_gradio_app.py (flat rule list), and the entry of                 *)
(* huggingface_gradio_app.py (language model).  One analysis call is       *)
(* modelled as a sequence of steps over call-local variables; the clause   *)
(* text is a real string, and every substring test, regex search, lower()  *)
(* and strip() is computed on its characters.                              *)
(***************************************************************************)
EXTENDS Integers, Sequences, FiniteSets, TLC

(***************************************************************************)
(* Strings: Python str operations, computed character by character.        *)
(***************************************************************************)

\* str.lower() on one character (ASCII letters; other characters unchanged)
LowerChar(c) ==
    CASE c = "A" -> "a" [] c = "B" -> "b" [] c = "C" -> "c" [] c = "D" -> "d"
      [] c = "E" -> "e" [] c = "F" -> "f" [] c = "G" -> "g" [] c = "H" -> "h"
      [] c = "I" -> "i" [] c = "J" -> "j" [] c = "K" -> "k" [] c = "L" -> "l"
      [] c = "M" -> "m" [] c = "N" -> "n" [] c = "O" -> "o" [] c = "P" -> "p"
      [] c = "Q" -> "q" [] c = "R" -> "r" [] c = "S" -> "s" [] c = "T" -> "t"
      [] c = "U" -> "u" [] c = "V" -> "v" [] c = "W" -> "w" [] c = "X" -> "x"
      [] c = "Y" -> "y" [] c = "Z" -> "z" [] OTHER -> c

\* lower() of the characters s[i..j], each mapped on its own (the range is
\* halved so that long clauses do not nest deeply)
RECURSIVE LowerRange(_, _, _)
LowerRange(s, i, j) ==
    IF i > j THEN ""
    ELSE IF i = j THEN LowerChar(SubSeq(s, i, i))
    ELSE LowerRange(s, i, (i + j) \div 2) \o LowerRange(s, (i + j) \div 2 + 1, j)

\* a lower() that is never applied: the text is compared in its own case
LowerNone(s) == s

\* clause_text.lower()
Lower(s) == LowerRange(s, 1, Len(s))

\* the characters str.strip() removes (ASCII whitespace)
Whitespace == {" ", "\t", "\n", "\r", "\f"}

RECURSIVE LStrip(_)
LStrip(s) ==
    IF Len(s) > 0 /\ SubSeq(s, 1, 1) \in Whitespace
    THEN LStrip(SubSeq(s, 2, Len(s))) ELSE s

RECURSIVE RStrip(_)
RStrip(s) ==
    IF Len(s) > 0 /\ SubSeq(s, Len(s), Len(s)) \in Whitespace
    THEN RStrip(SubSeq(s, 1, Len(s) - 1)) ELSE s

\* clause_text.strip()
Strip(s) == RStrip(LStrip(s))

\* the literal t occurs in s starting at position i
OccursAt(t, s, i) == i >= 1 /\ i + Len(t) - 1 <= Len(s) /\ SubSeq(s, i, i + Len(t) - 1) = t

\* Python: t in s
Contains(t, s) == \E i \in 1..(Len(s) - Len(t) + 1) : OccursAt(t, s, i)

\* Python: any(term in s for term in terms)
AnyIn(terms, s) == \E k \in 1..Len(terms) : Contains(terms[k], s)

\* no line break in s[from..to]: what '.*' can run over (re without DOTALL)
NoNewline(s, from, to) == \A j \in from..to : SubSeq(s, j, j) # "\n"

\* the literals alt[k..] can be matched in order from position pos on, each
\* joined to the one before by '.*'
RECURSIVE MatchRest(_, _, _, _)
MatchRest(alt, k, s, pos) ==
    IF k > Len(alt) THEN TRUE
    ELSE \E p \in pos..(Len(s) - Len(alt[k]) + 1) :
            /\ OccursAt(alt[k], s, p)
            /\ NoNewline(s, pos, p - 1)
            /\ MatchRest(alt, k + 1, s, p + Len(alt[k]))

\* one alternative lit1.*lit2.*... matches somewhere in s
MatchAlt(alt, s) ==
    \E p \in 1..(Len(s) - Len(alt[1]) + 1) :
        OccursAt(alt[1], s, p) /\ MatchRest(alt, 2, s, p + Len(alt[1]))

\* a search that tries only the first '|' alternative
ReSearchFirstAlternative(pattern, s) == MatchAlt(pattern[1], s)

\* re.search(pattern, s) for a pattern a1|a2|..., each ai literals joined by '.*'
ReSearch(pattern, s) == \E a \in 1..Len(pattern) : MatchAlt(pattern[a], s)

(***************************************************************************)
(* The pattern catalogs.  A regex pattern is written as the sequence of    *)
(* its '|' alternatives, each the sequence of the literals that '.*'       *)
(* joins.  'desc' texts are carried into a finding and never read again;   *)
(* they are left out.                                                      *)
(***************************************************************************)

\* src/app.py 26-57
ambiguous_patterns_App ==
    <<
       [term |-> "reasonable", risk |-> 2,
        plain |-> "The word \"reasonable\" means different things to different people",
        recommendation |-> "Define specific criteria, timeframes, or benchmarks for what constitutes \"reasonable\""],
       [term |-> "material", risk |-> 2,
        plain |-> "What counts as \"material\" should be clearly defined with numbers or examples",
        recommendation |-> "Specify dollar amounts, percentages, or concrete examples of materiality"],
       [term |-> "best efforts", risk |-> 3,
        plain |-> "\"Best efforts\" could mean unlimited obligation - very risky for you",
        recommendation |-> "Replace with \"commercially reasonable efforts\" with defined performance metrics"],
       [term |-> "timely", risk |-> 2,
        plain |-> "Always use specific dates instead of vague terms like \"timely\"",
        recommendation |-> "Specify exact deadlines, timeframes, and delivery dates"],
       [term |-> "professional manner", risk |-> 1,
        plain |-> "Describe exactly what \"professional\" means in this specific context",
        recommendation |-> "Define specific quality standards or industry benchmarks for professional performance"]
    >>

\* src/app.py 72-137
high_risk_patterns_App ==
    <<
       [pattern |-> <<<<"unlimited liability">>, <<"any and all damages">>, <<"no limitation", "liability">>, <<"liable", "all", "damages">>>>,
        risk |-> 4, name |-> "Unlimited liability exposure",
        plain |-> "This could bankrupt you - always limit your liability exposure",
        recommendation |-> "Add liability caps and exclude consequential damages"],
       [pattern |-> <<<<"irrevocably", "assign">>, <<"irrevocable", "assignment">>>>,
        risk |-> 3, name |-> "Irrevocable assignment",
        plain |-> "Once you sign this, you can never get these rights back",
        recommendation |-> "Add termination conditions and scope limitations to assignments"],
       [pattern |-> <<<<"perpetuity">>, <<"throughout", "universe">>, <<"forever">>>>,
        risk |-> 3, name |-> "Unlimited duration",
        plain |-> "Forever is too long - courts may not enforce overly broad terms",
        recommendation |-> "Limit scope to reasonable time periods and geographic areas"],
       [pattern |-> <<<<"cayman", "law">>, <<"cayman islands">>>>,
        risk |-> 3, name |-> "Offshore jurisdiction",
        plain |-> "Resolving disputes offshore may be difficult, expensive, and risky",
        recommendation |-> "Consider requiring disputes be resolved in more favorable jurisdiction"],
       [pattern |-> <<<<"class action", "waiver">>, <<"waiving", "class action">>>>,
        risk |-> 2, name |-> "Class action waiver",
        plain |-> "You cannot join with others to sue - this may limit your legal options",
        recommendation |-> "Verify enforceability under applicable state and federal law"],
       [pattern |-> <<<<"waiver", "audit">>, <<"waiving", "audit">>>>,
        risk |-> 3, name |-> "Audit rights waiver",
        plain |-> "You are giving up the right to check if they are following the rules",
        recommendation |-> "Preserve essential audit and oversight rights"],
       [pattern |-> <<<<"terminate", "immediately", "without">>, <<"immediate", "termination", "without">>>>,
        risk |-> 2, name |-> "Immediate termination without notice",
        plain |-> "The other party can end this deal instantly without warning you",
        recommendation |-> "Add reasonable notice requirements and cure periods"],
       [pattern |-> <<<<"indemnify", "harmless">>, <<"hold", "harmless">>>>,
        risk |-> 3, name |-> "Broad indemnification",
        plain |-> "You might have to pay for problems you did not cause",
        recommendation |-> "Limit indemnification to specific scenarios and exclude gross negligence"]
    >>

\* src/api/analyze.py 26-57
ambiguous_patterns_Analyze ==
    <<
       [term |-> "reasonable", risk |-> 2,
        plain |-> "The word \"reasonable\" means different things to different people",
        recommendation |-> "Define specific criteria, timeframes, or benchmarks for what constitutes \"reasonable\""],
       [term |-> "material", risk |-> 2,
        plain |-> "What counts as \"material\" should be clearly defined with numbers or examples",
        recommendation |-> "Specify dollar amounts, percentages, or concrete examples of materiality"],
       [term |-> "best efforts", risk |-> 3,
        plain |-> "\"Best efforts\" could mean unlimited obligation - very risky for you",
        recommendation |-> "Replace with \"commercially reasonable efforts\" with defined performance metrics"],
       [term |-> "timely", risk |-> 2,
        plain |-> "Always use specific dates instead of vague terms like \"timely\"",
        recommendation |-> "Specify exact deadlines, timeframes, and delivery dates"],
       [term |-> "professional manner", risk |-> 1,
        plain |-> "Describe exactly what \"professional\" means in this specific context",
        recommendation |-> "Define specific quality standards or industry benchmarks for professional performance"]
    >>

\* src/api/analyze.py 72-121
high_risk_patterns_Analyze ==
    <<
       [pattern |-> <<<<"unlimited liability">>, <<"any and all damages">>, <<"no limitation", "liability">>, <<"liable", "all", "damages">>>>,
        risk |-> 4, name |-> "Unlimited liability exposure",
        plain |-> "This could bankrupt you - always limit your liability exposure",
        recommendation |-> "Add liability caps and exclude consequential damages"],
       [pattern |-> <<<<"irrevocably", "assign">>, <<"irrevocable", "assignment">>>>,
        risk |-> 3, name |-> "Irrevocable assignment",
        plain |-> "Once you sign this, you can never get these rights back",
        recommendation |-> "Add termination conditions and scope limitations to assignments"],
       [pattern |-> <<<<"perpetuity">>, <<"throughout", "universe">>, <<"forever">>>>,
        risk |-> 3, name |-> "Unlimited duration",
        plain |-> "Forever is too long - courts may not enforce overly broad terms",
        recommendation |-> "Limit scope to reasonable time periods and geographic areas"],
       [pattern |-> <<<<"cayman", "law">>, <<"cayman islands">>>>,
        risk |-> 3, name |-> "Offshore jurisdiction",
        plain |-> "Resolving disputes offshore may be difficult, expensive, and risky",
        recommendation |-> "Consider requiring disputes be resolved in more favorable jurisdiction"],
       [pattern |-> <<<<"class action", "waiver">>, <<"waiving", "class action">>>>,
        risk |-> 2, name |-> "Class action waiver",
        plain |-> "You cannot join with others to sue - this may limit your legal options",
        recommendation |-> "Verify enforceability under applicable state and federal law"],
       [pattern |-> <<<<"waiver", "audit">>, <<"waiving", "audit">>>>,
        risk |-> 3, name |-> "Audit rights waiver",
        plain |-> "You are giving up the right to check if they are following the rules",
        recommendation |-> "Preserve essential audit and oversight rights"]
    >>

\* src/api/index.py 18-49
ambiguous_patterns_Index ==
    <<
       [term |-> "reasonable", risk |-> 2,
        plain |-> "The word \"reasonable\" means different things to different people",
        recommendation |-> "Define specific criteria, timeframes, or benchmarks"],
       [term |-> "material", risk |-> 2,
        plain |-> "What counts as \"material\" should be clearly defined with numbers",
        recommendation |-> "Specify dollar amounts, percentages, or concrete examples"],
       [term |-> "best efforts", risk |-> 3,
        plain |-> "\"Best efforts\" could mean unlimited obligation - very risky",
        recommendation |-> "Replace with \"commercially reasonable efforts\" with defined metrics"],
       [term |-> "timely", risk |-> 2,
        plain |-> "Always use specific dates instead of vague terms like \"timely\"",
        recommendation |-> "Specify exact deadlines, timeframes, and delivery dates"],
       [term |-> "professional manner", risk |-> 1,
        plain |-> "Describe exactly what \"professional\" means in this context",
        recommendation |-> "Define specific quality standards or industry benchmarks"]
    >>

\* src/api/index.py 64-113
high_risk_patterns_Index ==
    <<
       [pattern |-> <<<<"unlimited liability">>, <<"any and all damages">>, <<"no limitation", "liability">>, <<"liable", "all", "damages">>>>,
        risk |-> 4, name |-> "Unlimited liability exposure",
        plain |-> "This could bankrupt you - always limit your liability exposure",
        recommendation |-> "Add liability caps and exclude consequential damages"],
       [pattern |-> <<<<"irrevocably", "assign">>, <<"irrevocable", "assignment">>>>,
        risk |-> 3, name |-> "Irrevocable assignment",
        plain |-> "Once you sign this, you can never get these rights back",
        recommendation |-> "Add termination conditions and scope limitations"],
       [pattern |-> <<<<"perpetuity">>, <<"throughout", "universe">>, <<"forever">>>>,
        risk |-> 3, name |-> "Unlimited duration",
        plain |-> "Forever is too long - courts may not enforce overly broad terms",
        recommendation |-> "Limit scope to reasonable time periods and geographic areas"],
       [pattern |-> <<<<"cayman", "law">>, <<"cayman islands">>>>,
        risk |-> 3, name |-> "Offshore jurisdiction",
        plain |-> "Resolving disputes offshore may be difficult, expensive, and risky",
        recommendation |-> "Consider requiring disputes be resolved in more favorable jurisdiction"],
       [pattern |-> <<<<"class action", "waiver">>, <<"waiving", "class action">>>>,
        risk |-> 2, name |-> "Class action waiver",
        plain |-> "You cannot join with others to sue - this may limit your legal options",
        recommendation |-> "Verify enforceability under applicable state and federal law"],
       [pattern |-> <<<<"waiver", "audit">>, <<"waiving", "audit">>>>,
        risk |-> 3, name |-> "Audit rights waiver",
        plain |-> "You are giving up the right to check if they are following the rules",
        recommendation |-> "Preserve essential audit and oversight rights"]
    >>

\* the implementations of the engine
Variants == {"app", "api_analyze", "api_index", "simple", "huggingface"}

\* the three variants that share the catalog-driven engine
Enhanced == {"app", "api_analyze", "api_index"}

ambiguous_patterns(v) ==
    CASE v = "app" -> ambiguous_patterns_App
      [] v = "api_analyze" -> ambiguous_patterns_Analyze
      [] v = "api_index" -> ambiguous_patterns_Index

high_risk_patterns(v) ==
    CASE v = "app" -> high_risk_patterns_App
      [] v = "api_analyze" -> high_risk_patterns_Analyze
      [] v = "api_index" -> high_risk_patterns_Index

\* ['LOW', 'MEDIUM', 'HIGH', 'CRITICAL']
RiskLevels == <<"LOW", "MEDIUM", "HIGH", "CRITICAL">>

Min(a, b) == IF a <= b THEN a ELSE b

\* the table read as if it were indexed from 1
RiskLevelOneBased(risk) == RiskLevels[IF risk < 1 THEN 1 ELSE IF risk <= 3 THEN risk ELSE 4]

\* ['LOW', 'MEDIUM', 'HIGH', 'CRITICAL'][min(risk, 3)]   (Python indexes from 0)
RiskLevelOf(risk) == RiskLevels[Min(risk, 3) + 1]

\* the ordered category list of the contract type detection
Categories(v) ==
    CASE v = "app" ->
           << [label |-> "Employment Agreement",
               terms |-> <<"employment", "employee", "employer", "salary", "benefits">>],
              [label |-> "Service Agreement",
               terms |-> <<"service", "contractor", "deliverable", "statement of work">>],
              [label |-> "Non-Disclosure Agreement",
               terms |-> <<"confidential", "non-disclosure", "proprietary">>],
              [label |-> "License Agreement",
               terms |-> <<"license", "intellectual property", "software", "patent">>],
              [label |-> "Purchase Agreement",
               terms |-> <<"purchase", "sale", "goods", "product">>] >>
      [] v = "api_analyze" ->
           << [label |-> "Employment Agreement",
               terms |-> <<"employment", "employee", "employer", "salary", "benefits">>],
              [label |-> "Service Agreement",
               terms |-> <<"service", "contractor", "deliverable", "statement of work">>],
              [label |-> "Non-Disclosure Agreement",
               terms |-> <<"confidential", "non-disclosure", "proprietary">>] >>
      [] v = "api_index" ->
           << [label |-> "Employment Agreement",
               terms |-> <<"employment", "employee", "employer", "salary", "benefits">>],
              [label |-> "Service Agreement",
               terms |-> <<"service", "contractor", "deliverable">>],
              [label |-> "Non-Disclosure Agreement",
               terms |-> <<"confidential", "non-disclosure", "proprietary">>] >>

(***************************************************************************)
(* The engine's computations, as the code performs them.                   *)
(***************************************************************************)

\* a guard without the strip() test
IsBlankNoStrip(clause_text) == clause_text = ""

\* the validation guard: not clause_text or not clause_text.strip()
IsBlank(clause_text) == clause_text = "" \/ Strip(clause_text) = ""

\* Python: d[key] = value
DictSet(d, key, value) ==
    [x \in (DOMAIN d) \cup {key} |-> IF x = key THEN value ELSE d[x]]

\* the finding appended for a matching ambiguous term
AmbiguityFinding(term, details) ==
    [issue |-> "Ambiguous term: \"" \o term \o "\"",
     plainEnglish |-> details.plain,
     recommendation |-> details.recommendation,
     riskLevel |-> RiskLevelOf(details.risk)]

\* the finding appended for a matching high-risk pattern
RiskFinding(pattern_info) ==
    [issue |-> "High-risk clause: " \o pattern_info.name,
     plainEnglish |-> pattern_info.plain,
     recommendation |-> pattern_info.recommendation,
     riskLevel |-> RiskLevelOf(pattern_info.risk)]

\* a loop that stops at the first matching term (a stray break)
RECURSIVE ScanAmbiguousBreak(_, _, _, _)
ScanAmbiguousBreak(patterns, k, cl, acc) ==
    IF k > Len(patterns) THEN acc
    ELSE IF Contains(patterns[k].term, cl)
         THEN [found |-> Append(acc.found, [issue |-> "Ambiguous term: \"" \o patterns[k].term \o "\"",
                                            plainEnglish |-> patterns[k].plain,
                                            recommendation |-> patterns[k].recommendation,
                                            riskLevel |-> RiskLevelOf(patterns[k].risk)]),
               scores |-> DictSet(acc.scores, patterns[k].term, patterns[k].risk)]
         ELSE ScanAmbiguousBreak(patterns, k + 1, cl, acc)

\* for term, details in ambiguous_patterns.items(): from entry k on, with
\* acc = [found |-> the list appended to, scores |-> risk_scores]
RECURSIVE ScanAmbiguous(_, _, _, _)
ScanAmbiguous(patterns, k, cl, acc) ==
    IF k > Len(patterns) THEN acc
    ELSE IF Contains(patterns[k].term, cl)
         THEN ScanAmbiguous(patterns, k + 1, cl,
                  [found |-> Append(acc.found, AmbiguityFinding(patterns[k].term, patterns[k])),
                   scores |-> DictSet(acc.scores, patterns[k].term, patterns[k].risk)])
         ELSE ScanAmbiguous(patterns, k + 1, cl, acc)

\* variation: every high-risk score is stored under one key
RECURSIVE ScanHighRiskSharedKey(_, _, _, _)
ScanHighRiskSharedKey(patterns, k, cl, acc) ==
    IF k > Len(patterns) THEN acc
    ELSE IF ReSearch(patterns[k].pattern, cl)
         THEN ScanHighRiskSharedKey(patterns, k + 1, cl,
                  [found |-> Append(acc.found, RiskFinding(patterns[k])),
                   scores |-> DictSet(acc.scores, "risk", patterns[k].risk)])
         ELSE ScanHighRiskSharedKey(patterns, k + 1, cl, acc)

\* for pattern_info in high_risk_patterns: from entry k on
RECURSIVE ScanHighRisk(_, _, _, _)
ScanHighRisk(patterns, k, cl, acc) ==
    IF k > Len(patterns) THEN acc
    ELSE IF ReSearch(patterns[k].pattern, cl)
         THEN ScanHighRisk(patterns, k + 1, cl,
                  [found |-> Append(acc.found, RiskFinding(patterns[k])),
                   scores |-> DictSet(acc.scores, patterns[k].name, patterns[k].risk)])
         ELSE ScanHighRisk(patterns, k + 1, cl, acc)

\* a chain of plain ifs: a later matching category overwrites an earlier one
RECURSIVE LastCategory(_, _, _)
LastCategory(cats, k, cl) ==
    IF k > Len(cats) THEN "General Contract"
    ELSE LET later == LastCategory(cats, k + 1, cl)
         IN IF later # "General Contract" THEN later
            ELSE IF AnyIn(cats[k].terms, cl) THEN cats[k].label
            ELSE "General Contract"

\* the if/elif chain over the categories, from category k on
RECURSIVE FirstCategory(_, _, _)
FirstCategory(cats, k, cl) ==
    IF k > Len(cats) THEN "General Contract"
    ELSE IF AnyIn(cats[k].terms, cl) THEN cats[k].label
         ELSE FirstCategory(cats, k + 1, cl)

\* contract type detection
DetectContractType(v, cl) == FirstCategory(Categories(v), 1, cl)

\* max(risk_scores.values())
MaxValue(d) == CHOOSE m \in {d[x] : x \in DOMAIN d} : \A x \in DOMAIN d : d[x] <= m

\* sum(risk_scores.values())
RECURSIVE SumValues(_)
SumValues(d) ==
    IF DOMAIN d = {} THEN 0
    ELSE LET x == CHOOSE y \in DOMAIN d : TRUE
         IN d[x] + SumValues([y \in (DOMAIN d) \ {x} |-> d[y]])

\* the average compared with > instead of >=
SeverityStrictAverage(scores) ==
    IF DOMAIN scores # {}
    THEN LET max_risk == MaxValue(scores)
             total == SumValues(scores)
             n == Cardinality(DOMAIN scores)
         IN IF max_risk >= 4 \/ total > 3 * n THEN "CRITICAL"
            ELSE IF max_risk >= 3 \/ 2 * total > 5 * n THEN "HIGH"
            ELSE IF max_risk >= 2 \/ 2 * total > 3 * n THEN "MEDIUM"
            ELSE "LOW"
    ELSE "LOW"

\* variation: the severity from the average alone, without max_risk
SeverityAverageOnly(scores) ==
    IF DOMAIN scores # {}
    THEN LET total == SumValues(scores)
             n == Cardinality(DOMAIN scores)
         IN IF total >= 3 * n THEN "CRITICAL"
            ELSE IF 2 * total >= 5 * n THEN "HIGH"
            ELSE IF 2 * total >= 3 * n THEN "MEDIUM"
            ELSE "LOW"
    ELSE "LOW"

\* variation: the MEDIUM branch left out
SeverityWithoutMedium(scores) ==
    IF DOMAIN scores # {}
    THEN LET max_risk == MaxValue(scores)
             total == SumValues(scores)
             n == Cardinality(DOMAIN scores)
         IN IF max_risk >= 4 \/ total >= 3 * n THEN "CRITICAL"
            ELSE IF max_risk >= 3 \/ 2 * total >= 5 * n THEN "HIGH"
            ELSE "LOW"
    ELSE "LOW"

\* the labels of the second and third branch exchanged
SeveritySwappedLabels(scores) ==
    IF DOMAIN scores # {}
    THEN LET max_risk == MaxValue(scores)
             total == SumValues(scores)
             n == Cardinality(DOMAIN scores)
         IN IF max_risk >= 4 \/ total >= 3 * n THEN "CRITICAL"
            ELSE IF max_risk >= 3 \/ 2 * total >= 5 * n THEN "MEDIUM"
            ELSE IF max_risk >= 2 \/ 2 * total >= 3 * n THEN "HIGH"
            ELSE "LOW"
    ELSE "LOW"

\* overall severity from risk_scores; avg_risk = sum / len is compared with
\* 3, 2.5 and 1.5 by cross-multiplying (the quotient of two small integers
\* is on the right side of each threshold exactly when the products are)
Severity(scores) ==
    IF DOMAIN scores # {}
    THEN LET max_risk == MaxValue(scores)
             total == SumValues(scores)
             n == Cardinality(DOMAIN scores)
         IN IF max_risk >= 4 \/ total >= 3 * n THEN "CRITICAL"
            ELSE IF max_risk >= 3 \/ 2 * total >= 5 * n THEN "HIGH"
            ELSE IF max_risk >= 2 \/ 2 * total >= 3 * n THEN "MEDIUM"
            ELSE "LOW"
    ELSE "LOW"

\* the first key finding: the issue count (only app.py has the singular form)
CountLine(v, total) ==
    IF total = 0 THEN "No major legal issues detected in this clause"
    ELSE IF v = "app" /\ total = 1 THEN "Found 1 legal concern requiring attention"
    ELSE "Found " \o ToString(total) \o " legal concerns requiring attention"

\* variation: the detection line appended before the warning line
KeyFindingsDetectionFirst(v, total, sev, ctype) ==
    <<CountLine(v, total)>>
    \o (IF ctype # "General Contract"
        THEN <<"Detected as " \o ctype \o " - specialized analysis applied">>
        ELSE <<>>)
    \o (IF sev \in {"HIGH", "CRITICAL"}
        THEN <<"(!) " \o sev \o " RISK: Immediate legal review strongly recommended">>
        ELSE <<>>)

\* key_findings (the warning line starts with a warning-sign emoji in the code)
KeyFindings(v, total, sev, ctype) ==
    <<CountLine(v, total)>>
    \o (IF sev \in {"HIGH", "CRITICAL"}
        THEN <<"(!) " \o sev \o " RISK: Immediate legal review strongly recommended">>
        ELSE <<>>)
    \o (IF ctype # "General Contract"
        THEN <<"Detected as " \o ctype \o " - specialized analysis applied">>
        ELSE <<>>)

\* the dispute check chained to the governing law check with elif
MissingProtectionsChained(cl) ==
    (IF ~AnyIn(<<"governing law", "applicable law">>, cl)
     THEN <<[element |-> "Governing Law Clause",
             recommendation |-> "Add governing law clause to clarify legal jurisdiction"]>>
     ELSE IF ~AnyIn(<<"dispute", "arbitration", "litigation">>, cl)
     THEN <<[element |-> "Dispute Resolution Mechanism",
             recommendation |-> "Add clear dispute resolution procedures"]>>
     ELSE <<>>)
    \o (IF Contains("liability", cl) /\ ~AnyIn(<<"limit", "cap", "exclude">>, cl)
        THEN <<[element |-> "Liability Limitations",
                recommendation |-> "Add liability caps and damage exclusions"]>>
        ELSE <<>>)

\* app.py: the missing standard protections check ('description' and
\* 'plainEnglish' of an entry are not read again and are left out)
MissingProtections(cl) ==
    (IF ~AnyIn(<<"governing law", "applicable law">>, cl)
     THEN <<[element |-> "Governing Law Clause",
             recommendation |-> "Add governing law clause to clarify legal jurisdiction"]>>
     ELSE <<>>)
    \o (IF ~AnyIn(<<"dispute", "arbitration", "litigation">>, cl)
        THEN <<[element |-> "Dispute Resolution Mechanism",
                recommendation |-> "Add clear dispute resolution procedures"]>>
        ELSE <<>>)
    \o (IF Contains("liability", cl) /\ ~AnyIn(<<"limit", "cap", "exclude">>, cl)
        THEN <<[element |-> "Liability Limitations",
                recommendation |-> "Add liability caps and damage exclusions"]>>
        ELSE <<>>)

\* app.py: legal references based on content
LegalReferences(ctype, cl) ==
    <<"Restatement (Second) of Contracts">>
    \o (IF ctype = "Employment Agreement"
        THEN <<"Fair Labor Standards Act (FLSA)", "National Labor Relations Act">>
        ELSE IF Contains("intellectual property", cl)
        THEN <<"Copyright Act of 1976", "Patent Act (35 U.S.C.)">>
        ELSE IF Contains("arbitration", cl)
        THEN <<"Federal Arbitration Act (FAA)">>
        ELSE IF AnyIn(<<"sale", "goods", "purchase">>, cl)
        THEN <<"Uniform Commercial Code (UCC)">>
        ELSE <<>>)

\* Python: xs[:n]
Take(xs, n) == SubSeq(xs, 1, Min(n, Len(xs)))

\* variation: the comprehension without its riskLevel condition
SelectRecommendationsUnfiltered(xs, levels) ==
    [i \in 1..Len(xs) |-> xs[i].recommendation]

\* [f(item) for item in xs if keep(item)]
SelectRecommendations(xs, levels) ==
    LET kept == SelectSeq(xs, LAMBDA item : item.riskLevel \in levels)
    IN [i \in 1..Len(kept) |-> kept[i].recommendation]

PlainEnglishOf(xs) == [i \in 1..Len(xs) |-> xs[i].plainEnglish]

RecommendationsOf(xs) == [i \in 1..Len(xs) |-> xs[i].recommendation]

(***************************************************************************)
(* simple_gradio_app.py: a flat list of rules, each appending fixed texts  *)
(* to the detected_* lists.                                                *)
(***************************************************************************)

\* the rules of the pattern section, in code order, evaluated on clause_lower
SimpleRules(cl) ==
    <<
       \* line 26
       [hit |-> Contains("reasonable", cl),
        ambiguities |-> <<"Term 'reasonable' is subjective and may lead to disputes over interpretation">>,
        risks |-> <<>>,
        recommendations |-> <<"Define specific criteria, timeframes, or benchmarks for what constitutes 'reasonable'">>,
        missing |-> <<>>,
        references |-> <<>>],
       \* line 30
       [hit |-> (Contains("best efforts", cl) \/ Contains("best endeavors", cl)),
        ambiguities |-> <<"'Best efforts' standard lacks clear definition and enforcement criteria">>,
        risks |-> <<>>,
        recommendations |-> <<"Replace with 'commercially reasonable efforts' or define specific performance metrics">>,
        missing |-> <<>>,
        references |-> <<"Case law: Bloor Italian Gifts Ltd. v. Dixon (reasonable vs. best efforts)">>],
       \* line 35
       [hit |-> (Contains("material", cl) /\ (Contains("breach", cl) \/ Contains("change", cl))),
        ambiguities |-> <<"Definition of 'material' is not specified and subject to interpretation">>,
        risks |-> <<>>,
        recommendations |-> <<"Define materiality thresholds with specific examples or percentage/dollar amounts">>,
        missing |-> <<>>,
        references |-> <<>>],
       \* line 39
       [hit |-> Contains("confidential", cl),
        ambiguities |-> <<>>,
        risks |-> <<"Scope of confidentiality obligations may be overly broad or insufficiently defined">>,
        recommendations |-> <<"Clearly define categories of confidential information with specific exclusions">>,
        missing |-> <<"Confidentiality carve-outs for publicly available information">>,
        references |-> <<>>],
       \* line 44
       [hit |-> (Contains("terminate", cl) \/ Contains("termination", cl)),
        ambiguities |-> <<>>,
        risks |-> <<"Termination conditions and procedures may create enforcement difficulties">>,
        recommendations |-> <<"Specify exact termination procedures, notice requirements, and cure periods">>,
        missing |-> <<"Post-termination obligations and survival clauses">>,
        references |-> <<>>],
       \* line 49
       [hit |-> (Contains("liability", cl) \/ Contains("damages", cl)),
        ambiguities |-> <<>>,
        risks |-> <<"Liability exposure may be inadequately limited or undefined">>,
        recommendations |-> <<"Add comprehensive liability limitation and damages cap clauses">>,
        missing |-> <<>>,
        references |-> <<"Uniform Commercial Code provisions on consequential damages">>],
       \* line 54
       [hit |-> (Contains("force majeure", cl) \/ Contains("act of god", cl)),
        ambiguities |-> <<"Force majeure events may not cover modern risks (e.g., cyber attacks, pandemics)">>,
        risks |-> <<>>,
        recommendations |-> <<"Update force majeure clause to include contemporary risk factors">>,
        missing |-> <<>>,
        references |-> <<>>],
       \* line 58
       [hit |-> (Contains("intellectual property", cl) \/ Contains(" ip ", cl)),
        ambiguities |-> <<>>,
        risks |-> <<"Intellectual property ownership and licensing terms may be unclear">>,
        recommendations |-> <<>>,
        missing |-> <<"IP indemnification and warranty provisions">>,
        references |-> <<"Copyright Act and Patent Act provisions">>],
       \* line 63
       [hit |-> (Contains("payment", cl) \/ Contains("fee", cl)),
        ambiguities |-> <<"Payment terms, schedules, and late payment consequences unclear">>,
        risks |-> <<>>,
        recommendations |-> <<"Specify exact payment amounts, due dates, and late payment penalties">>,
        missing |-> <<>>,
        references |-> <<>>],
       \* line 67
       [hit |-> (Contains("dispute", cl) \/ Contains("arbitration", cl)),
        ambiguities |-> <<>>,
        risks |-> <<>>,
        recommendations |-> <<"Ensure dispute resolution mechanism is enforceable in relevant jurisdictions">>,
        missing |-> <<"Choice of law and venue provisions">>,
        references |-> <<>>],
       \* line 72
       [hit |-> (Contains("shady", cl) \/ Contains("cayman", cl)),
        ambiguities |-> <<>>,
        risks |-> <<"Offshore jurisdiction may limit legal protections and enforcement options">>,
        recommendations |-> <<"Consider requiring disputes be resolved in more favorable jurisdiction">>,
        missing |-> <<>>,
        references |-> <<>>],
       \* line 76
       [hit |-> (Contains("irrevocably", cl) /\ Contains("assign", cl)),
        ambiguities |-> <<>>,
        risks |-> <<"Irrevocable assignment clauses provide no recourse for the assigning party">>,
        recommendations |-> <<"Add limitations on scope and duration of assignments">>,
        missing |-> <<>>,
        references |-> <<>>],
       \* line 80
       [hit |-> (Contains("perpetuity", cl) \/ Contains("throughout the universe", cl)),
        ambiguities |-> <<>>,
        risks |-> <<"Overly broad temporal and geographic scope may be unenforceable">>,
        recommendations |-> <<"Limit scope to reasonable time periods and jurisdictions">>,
        missing |-> <<>>,
        references |-> <<>>],
       \* line 84
       [hit |-> (Contains("deemed granted", cl) \/ Contains("automatically", cl)),
        ambiguities |-> <<"Automatic approval mechanisms may not provide adequate oversight">>,
        risks |-> <<>>,
        recommendations |-> <<"Require explicit approval for important decisions">>,
        missing |-> <<>>,
        references |-> <<>>],
       \* line 88
       [hit |-> (Contains("waiver", cl) /\ (Contains("audit", cl) \/ Contains("oversight", cl))),
        ambiguities |-> <<>>,
        risks |-> <<"Waiver of audit/oversight rights eliminates important protections">>,
        recommendations |-> <<"Preserve essential audit and oversight rights">>,
        missing |-> <<>>,
        references |-> <<>>]
    >>

\* run the rules from rule k on; acc holds the five detected_* lists
RECURSIVE ApplySimpleRules(_, _, _)
ApplySimpleRules(rules, k, acc) ==
    IF k > Len(rules) THEN acc
    ELSE IF rules[k].hit
         THEN ApplySimpleRules(rules, k + 1,
                  [ambiguities |-> acc.ambiguities \o rules[k].ambiguities,
                   risks |-> acc.risks \o rules[k].risks,
                   recommendations |-> acc.recommendations \o rules[k].recommendations,
                   missing |-> acc.missing \o rules[k].missing,
                   references |-> acc.references \o rules[k].references])
         ELSE ApplySimpleRules(rules, k + 1, acc)

\* simple_gradio_app.py: the check for missing standard clauses
SimpleMissingClauses(cl) ==
    (IF ~AnyIn(<<"governing law", "applicable law">>, cl)
     THEN <<"Governing law clause">> ELSE <<>>)
    \o (IF ~AnyIn(<<"dispute", "arbitration", "litigation">>, cl)
        THEN <<"Dispute resolution mechanism">> ELSE <<>>)
    \o (IF ~AnyIn(<<"amendment", "modification">>, cl)
        THEN <<"Contract amendment procedures">> ELSE <<>>)

\* if not xs: xs.append(default)
OrDefault(xs, default) == IF Len(xs) = 0 THEN <<default>> ELSE xs

\* output list limits of app.py
MissingLimitApp == 3
ReferenceLimitApp == 4

\* output list limits of simple_gradio_app.py
ItemLimitSimple == 5
MissingLimitSimple == 4
ReferenceLimitSimple == 3

(***************************************************************************)
(* Inputs: a clause is the concatenation of up to MaxParts phrases.  The   *)
(* phrases trigger every catalog entry, every contract category and every  *)
(* gap check, in mixed letter case, alone and overlapping.                 *)
(***************************************************************************)

Vocabulary ==
    << " ",
       "\t\n",
       "use reasonable efforts in a timely manner. ",
       "BEST EFFORTS ",
       "in a professional manner. ",
       "material breach or material change. ",
       "Unlimited Liability ",
       "any and all damages ",
       "irrevocably assigns in perpetuity ",
       "class action waiver of audit rights ",
       "terminate immediately without notice ",
       "indemnify and hold harmless ",
       "Cayman Islands arbitration ",
       "employee salary ",
       "contractor services ",
       "statement of work ",
       "confidentiality dispute over intellectual property ",
       "software license ",
       "sale of goods ",
       "governing law ",
       "amendment ",
       "liability ",
       "unlimited liability, irrevocably assign in perpetuity throughout the universe, waiver of audit rights. ",
       "the contractor shall indemnify and hold harmless on a best efforts basis. " >>

\* the longest clause, in phrases
MaxParts == 2

RECURSIVE Concat(_, _)
Concat(parts, k) ==
    IF k > Len(parts) THEN "" ELSE Vocabulary[parts[k]] \o Concat(parts, k + 1)

\* the phrases of a clause are taken in vocabulary order, repeats allowed
Texts ==
    { Concat(parts, 1) :
        parts \in UNION { { p \in [1..n -> 1..Len(Vocabulary)] :
                               \A i \in 1..(n - 1) : p[i] <= p[i + 1] } : n \in 0..MaxParts } }

\* arguments that are not str: the Python type and the literal (for bytes,
\* the content)
OtherArguments ==
    { [type |-> "NoneType", text |-> "None"],
      [type |-> "int", text |-> "0"],
      [type |-> "int", text |-> "123"],
      [type |-> "list", text |-> "[]"],
      [type |-> "list", text |-> "['x']"],
      [type |-> "bytes", text |-> " "],
      [type |-> "bytes", text |-> "employee salary"] }

\* every argument value of a call
Arguments == { [type |-> "str", text |-> t] : t \in Texts } \cup OtherArguments

(***************************************************************************)
(* State: the argument, the locals and the return value of one call of     *)
(* the analysis function of one variant.                                   *)
(***************************************************************************)

VARIABLES
    variant,              \* which implementation is called
    clause_type,          \* the Python type of the argument
    clause_text,          \* the argument: its text (str, bytes) or its literal
    pc,                   \* position in the function body
    clause_lower,
    ambiguities,
    risks,
    risk_scores,
    contract_type,
    severity,
    total_issues,
    key_findings,
    missing_protections,
    legal_references,
    detected,             \* simple_gradio_app.py: the five detected_* lists
    result,               \* the value returned (before json.dumps)
    exception,            \* the message of the exception raised to the caller, if any
    trace,                \* history: the steps executed so far
    now,                  \* the wall clock, in seconds
    returned,             \* history: the earlier calls, argument and returned value
    suspended,            \* the frames of the other invocations in flight
    interleaved,          \* history: an invocation was preempted in mid-flight
    request,              \* the HTTP POST request being handled, if any
    handler,              \* position in do_POST
    post_data,            \* do_POST: the bytes read from the request
    responses             \* the HTTP responses sent so far

locals == <<clause_lower, ambiguities, risks, risk_scores, contract_type, severity,
            total_issues, key_findings, missing_protections, legal_references, detected>>

vars == <<variant, clause_type, clause_text, pc, locals, result, exception, trace,
          now, returned, suspended, interleaved, request, handler, post_data, responses>>

\* the state of the HTTP handler
http == <<request, handler, post_data, responses>>

\* no value returned yet
NoResult == [pending |-> TRUE]

\* no exception raised to the caller
NoException == ""

EmptyDict == [x \in {} |-> 0]

EmptyDetected ==
    [ambiguities |-> <<>>, risks |-> <<>>, recommendations |-> <<>>,
     missing |-> <<>>, references |-> <<>>]

\* the first call: one of the functions vs is called with one of the arguments args
Start(vs, args) ==
    /\ variant \in vs
    /\ \E a \in args : clause_type = a.type /\ clause_text = a.text
    /\ pc = "validate"
    /\ clause_lower = ""
    /\ ambiguities = <<>>
    /\ risks = <<>>
    /\ risk_scores = EmptyDict
    /\ contract_type = ""
    /\ severity = ""
    /\ total_issues = 0
    /\ key_findings = <<>>
    /\ missing_protections = <<>>
    /\ legal_references = <<>>
    /\ detected = EmptyDetected
    /\ result = NoResult
    /\ exception = NoException
    /\ trace = <<>>
    /\ now = 0
    /\ returned = <<>>

\* one invocation at a time: no other frame exists
Alone == suspended = <<>> /\ interleaved = FALSE

\* the function is called directly, not by the HTTP handler
NoRequest == [pending |-> FALSE]

Direct == request = NoRequest /\ handler = "direct" /\ post_data = "" /\ responses = <<>>

Init == Start(Variants, Arguments) /\ Alone /\ Direct

\* the truth value of an argument
Truthy(type, text) ==
    CASE type \in {"str", "bytes"} -> text # ""
      [] type = "NoneType" -> FALSE
      [] type = "int" -> text # "0"
      [] type = "list" -> text # "[]"

\* the types that have a strip method
HasStrip(type) == type \in {"str", "bytes"}

\* the guard before the try block: `not clause_text or not
\* clause_text.strip()`, in huggingface_gradio_app.py `not clause_text.strip()`
Guard(v, type, text) ==
    IF v # "huggingface" /\ ~Truthy(type, text) THEN "reject"
    ELSE IF ~HasStrip(type) THEN "raise"
    ELSE IF IsBlank(text) THEN "reject"
    ELSE "accept"

\* variation: the except clause without str(e) in the error text
FallbackReportWithoutMessage(v, message) ==
    IF v \in Enhanced
    THEN [error |-> "Analysis failed",
          summary |-> [overallSeverity |-> "UNKNOWN"],
          recommendations |->
              [immediate |-> <<"Please retry the analysis or consult legal counsel">>],
          metadata |-> [analysisVersion |-> "2.0-enhanced-error"]]
    ELSE [error |-> "Analysis failed",
          ambiguities |-> <<"Unable to analyze - please try again">>,
          risks |-> <<"Analysis service temporarily unavailable">>,
          recommendations |-> <<"Please retry the analysis">>,
          missingElements |-> <<>>,
          references |-> <<>>]

\* the value returned by the except clause for an exception with this message
FallbackReport(v, message) ==
    IF v \in Enhanced
    THEN [error |-> "Analysis failed: " \o message,
          summary |-> [overallSeverity |-> "UNKNOWN"],
          recommendations |->
              [immediate |-> <<"Please retry the analysis or consult legal counsel">>],
          metadata |-> [analysisVersion |-> "2.0-enhanced-error"]]
    ELSE [error |-> "Analysis failed: " \o message,
          ambiguities |-> <<"Unable to analyze - please try again">>,
          risks |-> <<"Analysis service temporarily unavailable">>,
          recommendations |-> <<"Please retry the analysis">>,
          missingElements |-> <<>>,
          references |-> <<>>]

\* `term in clause_lower` with a str term and a bytes clause
BytesMessage == "a bytes-like object is required, not 'str'"

\* a statement of step `name` raises inside the try block: the except clause
\* returns the fallback report
Except(name, message) ==
    /\ pc = name
    /\ pc' = "done"
    /\ trace' = trace \o <<name, "except " \o message>>
    /\ result' = FallbackReport(variant, message)
    /\ UNCHANGED <<variant, clause_type, clause_text, exception, locals, now, returned,
                   suspended, interleaved, http>>

Step(name, next) ==
    /\ pc = name
    /\ pc' = next
    /\ trace' = Append(trace, name)
    /\ UNCHANGED <<variant, clause_type, clause_text, exception, now, returned,
                   suspended, interleaved, http>>

\* if not clause_text or not clause_text.strip(): return {"error": ...}
Validate ==
    /\ pc = "validate"
    /\ trace' = Append(trace, "validate")
    /\ UNCHANGED <<variant, clause_type, clause_text, locals, now, returned,
                   suspended, interleaved, http>>
    /\ LET outcome == Guard(variant, clause_type, clause_text)
       IN CASE outcome = "reject" ->
                 /\ result' = [error |-> "Please provide a clause to analyze"]
                 /\ pc' = "done"
                 /\ exception' = exception
            [] outcome = "raise" ->
                 /\ result' = result
                 /\ pc' = "raised"
                 /\ exception' = "'" \o clause_type \o "' object has no attribute 'strip'"
            [] outcome = "accept" ->
                 /\ result' = result
                 /\ pc' = IF variant = "huggingface" THEN "generate" ELSE "lower"
                 /\ exception' = exception

\* variation: the list is created once, outside the function, and reused
KeptFindings(previous) == previous

\* ambiguities = [], risks = []: a new list in every call, whatever the name
\* held before
NewFindings(previous) == <<>>

\* clause_lower = clause_text.lower(), and the empty result lists
Normalize ==
    /\ Step("lower", IF variant \in Enhanced THEN "match_ambiguous" ELSE "simple_rules")
    /\ clause_lower' = Lower(clause_text)
    /\ ambiguities' = NewFindings(ambiguities)
    /\ risks' = NewFindings(risks)
    /\ risk_scores' = EmptyDict
    /\ detected' = EmptyDetected
    /\ UNCHANGED <<contract_type, severity, total_issues, key_findings,
                   missing_protections, legal_references, result>>

\* the loop over ambiguous_patterns
MatchAmbiguous ==
    IF clause_type = "bytes"
    THEN Except("match_ambiguous", BytesMessage)
    ELSE /\ Step("match_ambiguous", "match_risks")
         /\ LET out == ScanAmbiguous(ambiguous_patterns(variant), 1, clause_lower,
                                     [found |-> ambiguities, scores |-> risk_scores])
            IN /\ ambiguities' = out.found
               /\ risk_scores' = out.scores
         /\ UNCHANGED <<clause_lower, risks, contract_type, severity, total_issues,
                        key_findings, missing_protections, legal_references, detected, result>>

\* the loop over high_risk_patterns
MatchHighRisk ==
    /\ Step("match_risks", "contract_type")
    /\ LET out == ScanHighRisk(high_risk_patterns(variant), 1, clause_lower,
                               [found |-> risks, scores |-> risk_scores])
       IN /\ risks' = out.found
          /\ risk_scores' = out.scores
    /\ UNCHANGED <<clause_lower, ambiguities, contract_type, severity, total_issues,
                   key_findings, missing_protections, legal_references, detected, result>>

\* contract type detection
ClassifyContract ==
    /\ Step("contract_type", "severity")
    /\ contract_type' = DetectContractType(variant, clause_lower)
    /\ UNCHANGED <<clause_lower, ambiguities, risks, risk_scores, severity, total_issues,
                   key_findings, missing_protections, legal_references, detected, result>>

\* overall severity from risk_scores
CalculateSeverity ==
    /\ Step("severity", "key_findings")
    /\ severity' = Severity(risk_scores)
    /\ UNCHANGED <<clause_lower, ambiguities, risks, risk_scores, contract_type, total_issues,
                   key_findings, missing_protections, legal_references, detected, result>>

\* total_issues and key_findings
BuildKeyFindings ==
    /\ Step("key_findings", IF variant = "app" THEN "missing" ELSE "format")
    /\ total_issues' = Len(ambiguities) + Len(risks)
    /\ key_findings' = KeyFindings(variant, Len(ambiguities) + Len(risks), severity, contract_type)
    /\ UNCHANGED <<clause_lower, ambiguities, risks, risk_scores, contract_type, severity,
                   missing_protections, legal_references, detected, result>>

\* app.py: missing standard protections
CheckMissingProtections ==
    /\ Step("missing", "references")
    /\ missing_protections' = MissingProtections(clause_lower)
    /\ UNCHANGED <<clause_lower, ambiguities, risks, risk_scores, contract_type, severity,
                   total_issues, key_findings, legal_references, detected, result>>

\* app.py: legal references
CollectReferences ==
    /\ Step("references", "format")
    /\ legal_references' = LegalReferences(contract_type, clause_lower)
    /\ UNCHANGED <<clause_lower, ambiguities, risks, risk_scores, contract_type, severity,
                   total_issues, key_findings, missing_protections, detected, result>>

\* two decimal digits
TwoDigits(n) == IF n < 10 THEN "0" \o ToString(n) ELSE ToString(n)

\* time.strftime("%Y-%m-%d %H:%M:%S") for a clock t seconds into the day
\* (the date part is that of the day the clock started)
StrfTime(t) ==
    "2024-01-01 " \o TwoDigits((t \div 3600) % 24) \o ":" \o TwoDigits((t \div 60) % 60)
        \o ":" \o TwoDigits(t % 60)

\* the report of the three catalog-driven variants ('whyItMatters',
\* 'nextSteps' and the disclaimer are fixed texts and are left out)
Report(v) ==
    [summary |-> [contractType |-> contract_type,
                  overallSeverity |-> severity,
                  totalIssues |-> total_issues,
                  keyFindings |-> key_findings],
     detailedAnalysis |-> [ambiguities |-> ambiguities,
                           risks |-> risks,
                           missingProtections |->
                               IF v = "app" THEN Take(missing_protections, MissingLimitApp)
                               ELSE <<>>],
     recommendations |->
         IF v = "app"
         THEN [immediate |-> SelectRecommendations(ambiguities \o risks, {"HIGH", "CRITICAL"}),
               general |-> SelectRecommendations(ambiguities \o risks, {"LOW", "MEDIUM"}),
               missingElements |-> RecommendationsOf(missing_protections)]
         ELSE [immediate |-> SelectRecommendations(ambiguities \o risks, {"HIGH", "CRITICAL"}),
               general |-> SelectRecommendations(ambiguities \o risks, {"LOW", "MEDIUM"})],
     plainEnglishExplanation |-> [whatThisMeans |-> PlainEnglishOf(ambiguities \o risks)],
     legalReferences |->
         IF v = "app" THEN Take(legal_references, ReferenceLimitApp)
         ELSE <<"Restatement (Second) of Contracts", "Uniform Commercial Code (UCC)">>,
     metadata |-> [analysisVersion |->
                       CASE v = "app" -> "2.0-enhanced-production"
                         [] v = "api_analyze" -> "2.0-enhanced-api"
                         [] v = "api_index" -> "2.0-enhanced-vercel",
                   analysisDate |-> StrfTime(now)]]

\* build and return the report
FormatAnalysis ==
    /\ Step("format", "done")
    /\ result' = Report(variant)
    /\ UNCHANGED locals

\* simple_gradio_app.py: the pattern rules
RunSimpleRules ==
    IF clause_type = "bytes"
    THEN Except("simple_rules", BytesMessage)
    ELSE /\ Step("simple_rules", "simple_missing")
         /\ detected' = ApplySimpleRules(SimpleRules(clause_lower), 1, detected)
         /\ UNCHANGED <<clause_lower, ambiguities, risks, risk_scores, contract_type,
                        severity, total_issues, key_findings, missing_protections,
                        legal_references, result>>

\* simple_gradio_app.py: missing standard clauses
CheckSimpleMissing ==
    /\ Step("simple_missing", "simple_defaults")
    /\ detected' = [detected EXCEPT !.missing = @ \o SimpleMissingClauses(clause_lower)]
    /\ UNCHANGED <<clause_lower, ambiguities, risks, risk_scores, contract_type, severity,
                   total_issues, key_findings, missing_protections, legal_references, result>>

\* simple_gradio_app.py: default items and the general references
AddDefaults ==
    /\ Step("simple_defaults", "simple_result")
    /\ detected' =
         [detected EXCEPT
            !.ambiguities = OrDefault(@, "Contract language could benefit from more specific definitions"),
            !.risks = OrDefault(@, "Standard legal review recommended to identify potential liabilities"),
            !.recommendations = OrDefault(@, "Consider engaging qualified legal counsel for comprehensive review"),
            !.references = @ \o <<"Restatement (Second) of Contracts", "Uniform Commercial Code (UCC)">>]
    /\ UNCHANGED <<clause_lower, ambiguities, risks, risk_scores, contract_type, severity,
                   total_issues, key_findings, missing_protections, legal_references, result>>

\* simple_gradio_app.py: analysis_result
SimpleReport ==
    [ambiguities |-> Take(detected.ambiguities, ItemLimitSimple),
     risks |-> Take(detected.risks, ItemLimitSimple),
     recommendations |-> Take(detected.recommendations, ItemLimitSimple),
     missingElements |-> Take(detected.missing, MissingLimitSimple),
     references |-> Take(detected.references, ReferenceLimitSimple),
     enhanced |-> TRUE,
     keyFinding |-> "Legal analysis identified "
                    \o ToString(Len(detected.ambiguities \o detected.risks))
                    \o " key concerns requiring attention"]

SimpleResult ==
    /\ Step("simple_result", "done")
    /\ result' = SimpleReport
    /\ UNCHANGED locals

\* huggingface_gradio_app.py, create_structured_analysis: the keyword rules
\* on the lowercased clause, followed by the sentences extract_section took
\* from the generated text
StructuredAnalysis(cl, extracted) ==
    LET reasonable == Contains("reasonable", cl)
        best == Contains("best efforts", cl)
        material == Contains("material", cl) /\ Contains("breach", cl)
        confidential == Contains("confidential", cl)
        terminate == Contains("terminate", cl)
    IN [ambiguities |->
            (IF reasonable THEN <<"Term 'reasonable' is subjective and may lead to disputes">>
             ELSE <<>>)
            \o (IF best THEN <<"'Best efforts' standard is vague and difficult to enforce">>
                ELSE <<>>)
            \o (IF material THEN <<"Definition of 'material breach' is not specified">>
                ELSE <<>>)
            \o Take(extracted.ambiguities, 3),
        risks |->
            (IF confidential THEN <<"Scope of confidentiality obligations may be overly broad">>
             ELSE <<>>)
            \o (IF terminate THEN <<"Termination conditions and procedures may be unclear">>
                ELSE <<>>)
            \o Take(extracted.risks, 3),
        recommendations |->
            (IF reasonable THEN <<"Define specific criteria for what constitutes 'reasonable'">>
             ELSE <<>>)
            \o (IF best
                THEN <<"Replace with 'commercially reasonable efforts' or specific performance metrics">>
                ELSE <<>>)
            \o (IF material
                THEN <<"Define what constitutes a material breach with specific examples">>
                ELSE <<>>)
            \o (IF confidential
                THEN <<"Clearly define what information is considered confidential">>
                ELSE <<>>)
            \o (IF terminate
                THEN <<"Specify exact termination procedures and notice requirements">>
                ELSE <<>>)
            \o Take(extracted.recommendations, 3),
        missingElements |-> <<"Governing law clause may be missing",
                              "Dispute resolution mechanism should be specified">>,
        references |-> <<"Contract law fundamentals", "Industry standard practices">>]

\* what extract_section can return for a section of the generated text
ExtractedSections == { <<>>, <<"a sentence of the generated text about this clause">> }

\* what the sampled generation can be: text holding a JSON object, other
\* text, or a failure of the tokenizer or the model
Generations == {"json", "text", "failure"}

\* huggingface_gradio_app.py: the try block of analyze_legal_clause
Generate ==
    \E generation \in Generations :
      \E extracted \in [ambiguities : ExtractedSections, risks : ExtractedSections,
                        recommendations : ExtractedSections] :
        CASE generation = "failure" ->
               Except("generate", "generation failed")
          [] generation = "json" ->
               /\ Step("generate", "done")
               /\ result' = [analysis_json |-> "the object in the generated text"]
               /\ UNCHANGED locals
          [] generation = "text" ->
               IF clause_type = "bytes"
               THEN Except("generate", BytesMessage)
               ELSE /\ Step("generate", "done")
                    /\ result' = StructuredAnalysis(Lower(clause_text), extracted)
                    /\ UNCHANGED locals

Next ==
    \/ Validate
    \/ Normalize
    \/ MatchAmbiguous
    \/ MatchHighRisk
    \/ ClassifyContract
    \/ CalculateSeverity
    \/ BuildKeyFindings
    \/ CheckMissingProtections
    \/ CollectReferences
    \/ FormatAnalysis
    \/ RunSimpleRules
    \/ CheckSimpleMissing
    \/ AddDefaults
    \/ SimpleResult
    \/ Generate

Spec == Init /\ [][Next]_vars

\* the clauses of the repeated calls: blank, one finding, several findings
\* with a contract type, and a weight-4 match
CallTexts ==
    { "",
      "BEST EFFORTS ",
      "use reasonable efforts in a timely manner. employee salary ",
      "Unlimited Liability irrevocably assigns in perpetuity " }

\* the number of calls in a sequence of calls
MaxCalls == 3

InitCalls == Start(Enhanced, { [type |-> "str", text |-> t] : t \in CallTexts }) /\ Alone /\ Direct

\* the function is called again, at once or a second later.  The locals of
\* the call that has returned are dead: every step assigns a local before
\* any step reads it.
NewCall ==
    /\ pc = "done"
    /\ Len(returned) < MaxCalls - 1
    /\ returned' = Append(returned, [clause_text |-> clause_text, result |-> result])
    /\ clause_text' \in CallTexts
    /\ now' \in {now, now + 1}
    /\ pc' = "validate"
    /\ result' = NoResult
    /\ trace' = <<>>
    /\ UNCHANGED <<variant, clause_type, exception, locals, suspended, interleaved, http>>

NextCalls ==
    \/ Validate
    \/ Normalize
    \/ MatchAmbiguous
    \/ MatchHighRisk
    \/ ClassifyContract
    \/ CalculateSeverity
    \/ BuildKeyFindings
    \/ CheckMissingProtections
    \/ CollectReferences
    \/ FormatAnalysis
    \/ NewCall

\* sequences of calls of one of the catalog-driven functions
SpecCalls == InitCalls /\ [][NextCalls]_vars

(***************************************************************************)
(* Concurrent invocations.  Every name the function assigns is a local of  *)
(* its frame (the catalogs too: they are dict literals built inside the    *)
(* call); the module level holds only imports and the function itself.     *)
(* One invocation runs at a time (the interpreter lock), the others are    *)
(* suspended with their frames, and the scheduler may switch between any   *)
(* two steps.                                                              *)
(***************************************************************************)

\* the clauses of the concurrent invocations: blank, one finding, several
\* findings with a contract type
ConcurrentTexts ==
    { "",
      "BEST EFFORTS ",
      "use reasonable efforts in a timely manner. employee salary " }

\* the number of invocations in flight together
MaxInvocations == 2

\* the frame of the running invocation
Frame ==
    [clause_type |-> clause_type, clause_text |-> clause_text, pc |-> pc,
     clause_lower |-> clause_lower, ambiguities |-> ambiguities, risks |-> risks,
     risk_scores |-> risk_scores, contract_type |-> contract_type, severity |-> severity,
     total_issues |-> total_issues, key_findings |-> key_findings,
     missing_protections |-> missing_protections, legal_references |-> legal_references,
     detected |-> detected, result |-> result, exception |-> exception, trace |-> trace]

\* the frame of an invocation that has not run yet
NewFrame(text) ==
    [clause_type |-> "str", clause_text |-> text, pc |-> "validate",
     clause_lower |-> "", ambiguities |-> <<>>, risks |-> <<>>,
     risk_scores |-> EmptyDict, contract_type |-> "", severity |-> "",
     total_issues |-> 0, key_findings |-> <<>>,
     missing_protections |-> <<>>, legal_references |-> <<>>,
     detected |-> EmptyDetected, result |-> NoResult, exception |-> NoException,
     trace |-> <<>>]

\* variation: the name is a module-level global, one object for all invocations
SharedGlobal(saved, current) == current

\* a name assigned inside the function is looked up in the frame of the
\* invocation that resumes
Resumed(saved, current) == saved

\* the invocation has begun and has not returned
InFlight(position) == position \notin {"validate", "done", "raised"}

InitConcurrent ==
    /\ Start(Enhanced, { [type |-> "str", text |-> t] : t \in ConcurrentTexts })
    /\ suspended \in [1..(MaxInvocations - 1) -> { NewFrame(t) : t \in ConcurrentTexts }]
    /\ interleaved = FALSE
    /\ Direct

\* the scheduler suspends the running invocation and resumes another one
Switch ==
    \E i \in 1..Len(suspended) :
        LET f == suspended[i]
        IN /\ suspended' = [suspended EXCEPT ![i] = Frame]
           /\ interleaved' = (interleaved \/ (InFlight(pc) /\ InFlight(f.pc)))
           /\ clause_type' = f.clause_type
           /\ clause_text' = f.clause_text
           /\ pc' = f.pc
           /\ result' = f.result
           /\ exception' = f.exception
           /\ trace' = f.trace
           /\ clause_lower' = Resumed(f.clause_lower, clause_lower)
           /\ ambiguities' = Resumed(f.ambiguities, ambiguities)
           /\ risks' = Resumed(f.risks, risks)
           /\ risk_scores' = Resumed(f.risk_scores, risk_scores)
           /\ contract_type' = Resumed(f.contract_type, contract_type)
           /\ severity' = Resumed(f.severity, severity)
           /\ total_issues' = Resumed(f.total_issues, total_issues)
           /\ key_findings' = Resumed(f.key_findings, key_findings)
           /\ missing_protections' = Resumed(f.missing_protections, missing_protections)
           /\ legal_references' = Resumed(f.legal_references, legal_references)
           /\ detected' = Resumed(f.detected, detected)
           /\ UNCHANGED <<variant, now, returned, http>>

NextConcurrent ==
    \/ Validate
    \/ Normalize
    \/ MatchAmbiguous
    \/ MatchHighRisk
    \/ ClassifyContract
    \/ CalculateSeverity
    \/ BuildKeyFindings
    \/ CheckMissingProtections
    \/ CollectReferences
    \/ FormatAnalysis
    \/ Switch

\* invocations of one of the catalog-driven functions with interleaved steps
SpecConcurrent == InitConcurrent /\ [][NextConcurrent]_vars

(***************************************************************************)
(* The HTTP handlers of api/analyze.py and api/index.py: do_POST reads the *)
(* body, parses it, calls the engine and sends one response.               *)
(***************************************************************************)

HttpVariants == {"api_analyze", "api_index"}

\* the body {"clause": "<text>"} (the texts hold no character JSON escapes)
ClauseBody(text) == "{\"clause\": \"" \o text \o "\"}"

\* the request bodies: objects with a str clause, with no clause, with a null
\* and a number clause, an array, text that is not JSON, and no body
Bodies ==
    { ClauseBody(t) : t \in CallTexts }
    \cup { "{}", "{\"clause\": null}", "{\"clause\": 123}", "[]", "not json", "" }

\* the POST requests: the Content-Length header is the length of the body or
\* is missing
Requests ==
    [pending : {TRUE}, has_content_length : BOOLEAN, body : Bodies]

\* s without its first n and its last m characters
Inside(s, n, m) == SubSeq(s, n + 1, Len(s) - m)

\* json.loads on the bodies above: the kind of value, and for an object the
\* value of data.get('clause', '') as its Python type and text
JsonLoads(body) ==
    CASE body = "{}" ->
           [kind |-> "object", type |-> "str", text |-> ""]
      [] body = "{\"clause\": null}" ->
           [kind |-> "object", type |-> "NoneType", text |-> "None"]
      [] body = "{\"clause\": 123}" ->
           [kind |-> "object", type |-> "int", text |-> "123"]
      [] body = "[]" ->
           [kind |-> "array", type |-> "list", text |-> "[]"]
      [] /\ Len(body) >= Len(ClauseBody(""))
         /\ SubSeq(body, 1, 12) = "{\"clause\": \""
         /\ SubSeq(body, Len(body) - 1, Len(body)) = "\"}"
         /\ ~Contains("\"", Inside(body, 12, 2)) ->
           [kind |-> "object", type |-> "str", text |-> Inside(body, 12, 2)]
      [] OTHER ->
           [kind |-> "invalid", type |-> "", text |-> ""]

\* the headers sent after send_response(200)
OkHeaders ==
    {<<"Content-type", "application/json">>, <<"Access-Control-Allow-Origin", "*">>}

\* the headers sent by the except branch of do_POST
ErrorHeaders(v) ==
    IF v = "api_index"
    THEN {<<"Content-type", "application/json">>, <<"Access-Control-Allow-Origin", "*">>}
    ELSE {<<"Content-type", "application/json">>}

\* except Exception as e: send 500 with {"error": str(e)}
RespondError(message) ==
    /\ responses' = Append(responses, [status |-> 500,
                                       headers |-> ErrorHeaders(variant),
                                       body |-> [error |-> message]])
    /\ handler' = "finished"

\* before any request is read, the engine has not been called
InitHttp ==
    /\ variant \in HttpVariants
    /\ request \in Requests
    /\ handler = "read"
    /\ post_data = ""
    /\ responses = <<>>
    /\ clause_type = "str"
    /\ clause_text = ""
    /\ pc = "idle"
    /\ clause_lower = ""
    /\ ambiguities = <<>>
    /\ risks = <<>>
    /\ risk_scores = EmptyDict
    /\ contract_type = ""
    /\ severity = ""
    /\ total_issues = 0
    /\ key_findings = <<>>
    /\ missing_protections = <<>>
    /\ legal_references = <<>>
    /\ detected = EmptyDetected
    /\ result = NoResult
    /\ exception = NoException
    /\ trace = <<>>
    /\ now = 0
    /\ returned = <<>>
    /\ Alone

\* content_length = int(self.headers[...]); post_data = self.rfile.read(content_length).
\* api/analyze.py does this before the try block and indexes the headers, so
\* a missing header gives int(None), a TypeError no handler catches;
\* api/index.py reads the header with the default 0 inside the try block.
ReadRequest ==
    /\ handler = "read"
    /\ UNCHANGED <<variant, clause_type, clause_text, pc, locals, result, trace, now,
                   returned, suspended, interleaved, request, responses>>
    /\ IF request.has_content_length
       THEN /\ post_data' = request.body
            /\ handler' = "parse"
            /\ exception' = exception
       ELSE IF variant = "api_index"
            THEN /\ post_data' = ""
                 /\ handler' = "parse"
                 /\ exception' = exception
            ELSE /\ post_data' = post_data
                 /\ handler' = "crashed"
                 /\ exception' = "int() argument must be a string, a bytes-like object or a real number, not 'NoneType'"

\* data = json.loads(post_data.decode('utf-8')); clause_text = data.get('clause', '');
\* then the engine is called
ParseBody ==
    /\ handler = "parse"
    /\ UNCHANGED <<variant, locals, result, exception, trace, now, returned, suspended,
                   interleaved, request, post_data>>
    /\ LET data == JsonLoads(post_data)
       IN CASE data.kind = "invalid" ->
                 /\ RespondError("Expecting value: line 1 column 1 (char 0)")
                 /\ UNCHANGED <<clause_type, clause_text, pc>>
            [] data.kind = "array" ->
                 /\ RespondError("'list' object has no attribute 'get'")
                 /\ UNCHANGED <<clause_type, clause_text, pc>>
            [] data.kind = "object" ->
                 /\ clause_type' = data.type
                 /\ clause_text' = data.text
                 /\ pc' = "validate"
                 /\ handler' = "engine"
                 /\ responses' = responses

\* the engine has returned: send_response(200), the two headers, the report
RespondOk ==
    /\ handler = "engine"
    /\ pc = "done"
    /\ responses' = Append(responses, [status |-> 200, headers |-> OkHeaders, body |-> result])
    /\ handler' = "finished"
    /\ UNCHANGED <<variant, clause_type, clause_text, pc, locals, result, exception, trace,
                   now, returned, suspended, interleaved, request, post_data>>

\* the engine has raised: the except branch of do_POST answers
RespondRaised ==
    /\ handler = "engine"
    /\ pc = "raised"
    /\ RespondError(exception)
    /\ UNCHANGED <<variant, clause_type, clause_text, pc, locals, result, exception, trace,
                   now, returned, suspended, interleaved, request, post_data>>

NextHttp ==
    \/ ReadRequest
    \/ ParseBody
    \/ Validate
    \/ Normalize
    \/ MatchAmbiguous
    \/ MatchHighRisk
    \/ ClassifyContract
    \/ CalculateSeverity
    \/ BuildKeyFindings
    \/ FormatAnalysis
    \/ RespondOk
    \/ RespondRaised

\* one POST request to an analyze route
SpecHttp == InitHttp /\ [][NextHttp]_vars

(***************************************************************************)
(* The severity aggregator on its own: the dictionary of scores is any     *)
(* non-empty collection of integer weights.                                *)
(***************************************************************************)

\* the largest number of scores
MaxWeights == 3

\* the values a riskWeight can take
Weights == 0..4

\* score keys, one per entry
WeightKeys == [i \in 1..MaxWeights |-> "entry " \o ToString(i)]

\* the dictionaries with 1..MaxWeights scores
ScoreDicts ==
    UNION { [{WeightKeys[i] : i \in 1..n} -> Weights] : n \in 1..MaxWeights }

\* the call is about to compute the severity of some dictionary of scores
InitAggregator ==
    /\ variant \in Enhanced
    /\ clause_type = "str"
    /\ clause_text = ""
    /\ pc = "severity"
    /\ clause_lower = ""
    /\ ambiguities = <<>>
    /\ risks = <<>>
    /\ risk_scores \in ScoreDicts
    /\ contract_type = "General Contract"
    /\ severity = ""
    /\ total_issues = 0
    /\ key_findings = <<>>
    /\ missing_protections = <<>>
    /\ legal_references = <<>>
    /\ detected = EmptyDetected
    /\ result = NoResult
    /\ exception = NoException
    /\ trace = <<>>
    /\ now = 0
    /\ returned = <<>>
    /\ Alone
    /\ Direct

NextAggregator == CalculateSeverity

\* the severity computation applied to every dictionary of scores
SpecAggregator == InitAggregator /\ [][NextAggregator]_vars

\* the steps inside the try block of the rule-based variants
TrySteps ==
    {"lower", "match_ambiguous", "match_risks", "contract_type", "severity", "key_findings",
     "missing", "references", "format", "simple_rules", "simple_missing", "simple_defaults",
     "simple_result"}

\* the messages of the exceptions a statement can raise whatever its operands
\* (str(MemoryError()) is the empty string)
FaultMessages == {"", "out of memory"}

\* a statement of the current step raises such an exception
Fault ==
    /\ pc \in TrySteps
    /\ \E message \in FaultMessages : Except(pc, message)

NextWithFaults == Next \/ Fault

\* the calls in which any statement of the try block may fail
SpecWithFaults == Init /\ [][NextWithFaults]_vars

(***************************************************************************)
(* Properties.  Reference notions are defined here on the input text,      *)
(* apart from the operators the engine's steps use.                        *)
(***************************************************************************)

\* every character of s is whitespace (so also the empty string)
OnlyWhitespace(s) == \A i \in 1..Len(s) : SubSeq(s, i, i) \in Whitespace

LowerLetters == "abcdefghijklmnopqrstuvwxyz"
UpperLetters == "ABCDEFGHIJKLMNOPQRSTUVWXYZ"

\* c and d are the same character or the two cases of one letter
SameLetter(c, d) ==
    \/ c = d
    \/ \E i \in 1..Len(LowerLetters) :
          {c, d} = {SubSeq(LowerLetters, i, i), SubSeq(UpperLetters, i, i)}

\* t occurs in s in some letter case
ContainsAnyCase(t, s) ==
    \E i \in 1..(Len(s) - Len(t) + 1) :
        \A j \in 1..Len(t) : SameLetter(SubSeq(s, i + j - 1, i + j - 1), SubSeq(t, j, j))

\* the call has returned a report (not the validation error)
Reported == pc = "done" /\ "error" \notin DOMAIN result

\* the locals of the call still have the values they had before the call
LocalsUntouched ==
    /\ clause_lower = "" /\ ambiguities = <<>> /\ risks = <<>> /\ risk_scores = EmptyDict
    /\ contract_type = "" /\ severity = "" /\ total_issues = 0 /\ key_findings = <<>>
    /\ missing_protections = <<>> /\ legal_references = <<>> /\ detected = EmptyDetected

\* C1: once a call with an empty or whitespace-only clause has passed the
\* validation, it has returned exactly {"error": "Please provide a clause to
\* analyze"}: no other key, and no step but the validation has run and no
\* local has been written.
C1_BlankInputReturnsOnlyTheError ==
    (OnlyWhitespace(clause_text) /\ pc # "validate") =>
        /\ pc = "done"
        /\ DOMAIN result = {"error"}
        /\ result.error = "Please provide a clause to analyze"
        /\ trace = <<"validate">>
        /\ LocalsUntouched

\* a whitespace-only, non-empty clause has been rejected
C1_Witness ==
    /\ pc = "done" /\ clause_text # "" /\ OnlyWhitespace(clause_text)
    /\ DOMAIN result = {"error"}

\* the weights of the catalog entries of variant v whose predicate holds on cl
MatchedWeights(v, cl) ==
    LET amb == SelectSeq(ambiguous_patterns(v), LAMBDA e : Contains(e.term, cl))
        hr == SelectSeq(high_risk_patterns(v), LAMBDA e : ReSearch(e.pattern, cl))
    IN [i \in 1..Len(amb) |-> amb[i].risk] \o [i \in 1..Len(hr) |-> hr[i].risk]

RECURSIVE SeqSum(_)
SeqSum(ws) == IF Len(ws) = 0 THEN 0 ELSE Head(ws) + SeqSum(Tail(ws))

SeqMax(ws) == CHOOSE m \in {ws[i] : i \in 1..Len(ws)} : \A i \in 1..Len(ws) : ws[i] <= m

\* the stated rules on a list of weights: mean >= 3.0 is sum >= 3 * count,
\* mean >= 2.5 is 2 * sum >= 5 * count, mean >= 1.5 is 2 * sum >= 3 * count
ReferenceSeverity(ws) ==
    CASE Len(ws) = 0 -> "LOW"
      [] Len(ws) > 0 /\ (SeqMax(ws) >= 4 \/ SeqSum(ws) >= 3 * Len(ws)) -> "CRITICAL"
      [] Len(ws) > 0 /\ ~(SeqMax(ws) >= 4 \/ SeqSum(ws) >= 3 * Len(ws))
           /\ (SeqMax(ws) >= 3 \/ 2 * SeqSum(ws) >= 5 * Len(ws)) -> "HIGH"
      [] Len(ws) > 0 /\ ~(SeqMax(ws) >= 3 \/ 2 * SeqSum(ws) >= 5 * Len(ws))
           /\ ~(SeqSum(ws) >= 3 * Len(ws))
           /\ (SeqMax(ws) >= 2 \/ 2 * SeqSum(ws) >= 3 * Len(ws)) -> "MEDIUM"
      [] OTHER -> "LOW"

\* C2: the overallSeverity of every report of the catalog-driven variants is
\* the value of the stated threshold rules on the weights of exactly the
\* catalog entries that match the lowercased clause.
C2_SeverityIsTheThresholdRule ==
    (Reported /\ variant \in Enhanced) =>
        result.summary.overallSeverity
            = ReferenceSeverity(MatchedWeights(variant, Lower(clause_text)))

\* a report whose severity the average decides: highest weight 3, CRITICAL
C2_Witness ==
    /\ Reported /\ variant \in Enhanced
    /\ Cardinality(DOMAIN risk_scores) >= 2 /\ MaxValue(risk_scores) = 3
    /\ result.summary.overallSeverity = "CRITICAL"

\* LOW < MEDIUM < HIGH < CRITICAL
Rank(sev) == CASE sev = "LOW" -> 0 [] sev = "MEDIUM" -> 1 [] sev = "HIGH" -> 2 [] sev = "CRITICAL" -> 3

\* every catalog entry of variant v: score key -> weight
CatalogWeights(v) ==
    LET amb == ambiguous_patterns(v)
        hr == high_risk_patterns(v)
    IN [key \in {amb[i].term : i \in 1..Len(amb)} \cup {hr[i].name : i \in 1..Len(hr)} |->
           IF \E i \in 1..Len(amb) : amb[i].term = key
           THEN (CHOOSE e \in {amb[i] : i \in 1..Len(amb)} : e.term = key).risk
           ELSE (CHOOSE e \in {hr[i] : i \in 1..Len(hr)} : e.name = key).risk]

\* the scores with matched entry k replaced by the unmatched entry e
Replaced(scores, k, e, w) ==
    [x \in ((DOMAIN scores) \ {k}) \cup {e} |-> IF x = e THEN w ELSE scores[x]]

\* C3: in every report, replacing one matched entry by an unmatched entry of
\* strictly higher weight, the other matches unchanged, gives a severity that
\* is not lower than the reported one.
C3_SeverityMonotonicUnderReplacement ==
    (Reported /\ variant \in Enhanced) =>
        LET all == CatalogWeights(variant)
        IN \A k \in DOMAIN risk_scores : \A e \in (DOMAIN all) \ (DOMAIN risk_scores) :
              all[e] > risk_scores[k] =>
                  Rank(Severity(Replaced(risk_scores, k, e, all[e])))
                      >= Rank(result.summary.overallSeverity)

\* a report with several matches where such a replacement raises the severity
C3_Witness ==
    /\ Reported /\ variant \in Enhanced /\ Cardinality(DOMAIN risk_scores) >= 2
    /\ LET all == CatalogWeights(variant)
       IN \E k \in DOMAIN risk_scores : \E e \in (DOMAIN all) \ (DOMAIN risk_scores) :
             /\ all[e] > risk_scores[k]
             /\ Rank(Severity(Replaced(risk_scores, k, e, all[e])))
                    > Rank(result.summary.overallSeverity)

\* the level the stated table gives a weight: element min(weight, 3), counted from 0
TableLevel(w) ==
    CASE w = 0 -> "LOW" [] w = 1 -> "MEDIUM" [] w = 2 -> "HIGH" [] w >= 3 -> "CRITICAL"

\* finding f carries the issue text of a catalog entry of variant v and the
\* level the table gives that entry's weight
LevelFromEntry(v, f) ==
    \/ \E i \in 1..Len(ambiguous_patterns(v)) :
          /\ f.issue = "Ambiguous term: \"" \o ambiguous_patterns(v)[i].term \o "\""
          /\ f.riskLevel = TableLevel(ambiguous_patterns(v)[i].risk)
    \/ \E i \in 1..Len(high_risk_patterns(v)) :
          /\ f.issue = "High-risk clause: " \o high_risk_patterns(v)[i].name
          /\ f.riskLevel = TableLevel(high_risk_patterns(v)[i].risk)

\* C4: at every step of a call, every finding collected so far, and every
\* finding of the returned report, has the riskLevel the table gives the
\* weight of its own catalog entry: no step changes it after it is set.
C4_RiskLevelFromWeightOnly ==
    variant \in Enhanced =>
        /\ \A i \in 1..Len(ambiguities) : LevelFromEntry(variant, ambiguities[i])
        /\ \A i \in 1..Len(risks) : LevelFromEntry(variant, risks[i])
        /\ Reported =>
             /\ result.detailedAnalysis.ambiguities = ambiguities
             /\ result.detailedAnalysis.risks = risks

\* a report with a weight-4 finding (index clamped to 3) and a weight-1 finding
C4_Witness ==
    /\ Reported /\ variant \in Enhanced
    /\ \E i \in 1..Len(result.detailedAnalysis.risks) :
          /\ result.detailedAnalysis.risks[i].issue = "High-risk clause: Unlimited liability exposure"
          /\ result.detailedAnalysis.risks[i].riskLevel = "CRITICAL"
    /\ \E i \in 1..Len(result.detailedAnalysis.ambiguities) :
          /\ result.detailedAnalysis.ambiguities[i].issue = "Ambiguous term: \"professional manner\""
          /\ result.detailedAnalysis.ambiguities[i].riskLevel = "MEDIUM"

\* C5: every report on a clause that contains "best efforts" in any letter
\* case lists, among the ambiguities, the finding for that term with
\* riskLevel HIGH or CRITICAL.
C5_BestEffortsIsHighRisk ==
    (pc = "done" /\ variant \in Enhanced /\ ContainsAnyCase("best efforts", clause_text)) =>
        /\ Reported
        /\ \E i \in 1..Len(result.detailedAnalysis.ambiguities) :
              /\ result.detailedAnalysis.ambiguities[i].issue = "Ambiguous term: \"best efforts\""
              /\ result.detailedAnalysis.ambiguities[i].riskLevel \in {"HIGH", "CRITICAL"}

\* the term in capitals, next to other matches, is reported
C5_Witness ==
    /\ Reported /\ variant \in Enhanced
    /\ Contains("BEST EFFORTS", clause_text) /\ Len(risks) >= 1
    /\ \E i \in 1..Len(result.detailedAnalysis.ambiguities) :
          result.detailedAnalysis.ambiguities[i].issue = "Ambiguous term: \"best efforts\""

\* C6: every report on a clause that contains "unlimited liability" or "any
\* and all damages" (in any letter case) lists a CRITICAL finding among the
\* risks.
C6_UnlimitedLiabilityIsCritical ==
    (pc = "done" /\ variant \in Enhanced
       /\ (ContainsAnyCase("unlimited liability", clause_text)
             \/ ContainsAnyCase("any and all damages", clause_text))) =>
        /\ Reported
        /\ \E i \in 1..Len(result.detailedAnalysis.risks) :
              result.detailedAnalysis.risks[i].riskLevel = "CRITICAL"

\* "any and all damages", the second alternative of the pattern, among other text
C6_Witness ==
    /\ Reported /\ variant \in Enhanced
    /\ Contains("any and all damages", clause_text)
    /\ ~ContainsAnyCase("unlimited liability", clause_text)
    /\ Len(ambiguities) >= 1
    /\ \E i \in 1..Len(result.detailedAnalysis.risks) :
          result.detailedAnalysis.risks[i].riskLevel = "CRITICAL"

\* the number of findings in fs with the given issue text
CountIssue(fs, issue) == Cardinality({i \in 1..Len(fs) : fs[i].issue = issue})

\* the number of entries of a catalog that satisfy P
CountEntries(catalog, P(_)) == Cardinality({i \in 1..Len(catalog) : P(catalog[i])})

\* C7: in every report, each ambiguous term that is a substring of the
\* lowercased clause, and each high-risk pattern that is found in it, has
\* exactly one finding, however often it occurs and whatever else matches;
\* each other entry has none; and there are no further findings.
C7_OneFindingPerMatchingEntry ==
    (Reported /\ variant \in Enhanced) =>
        LET cl == Lower(clause_text)
            amb == ambiguous_patterns(variant)
            hr == high_risk_patterns(variant)
        IN /\ \A i \in 1..Len(amb) :
                 CountIssue(result.detailedAnalysis.ambiguities,
                            "Ambiguous term: \"" \o amb[i].term \o "\"")
                     = IF Contains(amb[i].term, cl) THEN 1 ELSE 0
           /\ \A i \in 1..Len(hr) :
                 CountIssue(result.detailedAnalysis.risks, "High-risk clause: " \o hr[i].name)
                     = IF ReSearch(hr[i].pattern, cl) THEN 1 ELSE 0
           /\ Len(result.detailedAnalysis.ambiguities)
                 = CountEntries(amb, LAMBDA e : Contains(e.term, cl))
           /\ Len(result.detailedAnalysis.risks)
                 = CountEntries(hr, LAMBDA e : ReSearch(e.pattern, cl))

\* "material" occurs twice and two other terms match as well; two patterns
\* match on overlapping text ("class action waiver of audit"): one finding each
C7_Witness ==
    /\ Reported /\ variant \in Enhanced
    /\ \E i, j \in 1..Len(clause_lower) :
          i < j /\ OccursAt("material", clause_lower, i) /\ OccursAt("material", clause_lower, j)
    /\ CountIssue(result.detailedAnalysis.ambiguities, "Ambiguous term: \"material\"") = 1
    /\ Contains("class action waiver of audit", clause_lower)
    /\ CountIssue(result.detailedAnalysis.risks, "High-risk clause: Class action waiver") = 1
    /\ CountIssue(result.detailedAnalysis.risks, "High-risk clause: Audit rights waiver") = 1

\* the stated priority order of the contract types
TypePriority ==
    <<"Employment Agreement", "Service Agreement", "Non-Disclosure Agreement",
      "License Agreement", "Purchase Agreement">>

\* some keyword of app.py's category with this label is a substring of cl
KeywordPresent(label, cl) ==
    \E k \in 1..Len(Categories("app")) :
        /\ Categories("app")[k].label = label
        /\ \E t \in 1..Len(Categories("app")[k].terms) : Contains(Categories("app")[k].terms[t], cl)

\* C8: in every report of app.py the contract type is the label of the first
\* category, in the order Employment, Service, NDA, License, Purchase, that
\* has a keyword in the lowercased clause, and it is "General Contract"
\* exactly when no category has one.
C8_ContractTypeFirstMatchWins ==
    (Reported /\ variant = "app") =>
        LET cl == Lower(clause_text)
            ct == result.summary.contractType
        IN /\ ct \in {TypePriority[k] : k \in 1..Len(TypePriority)} \cup {"General Contract"}
           /\ (ct = "General Contract") <=> (\A k \in 1..Len(TypePriority) : ~KeywordPresent(TypePriority[k], cl))
           /\ \A k \in 1..Len(TypePriority) :
                 (KeywordPresent(TypePriority[k], cl)
                    /\ \A j \in 1..(k - 1) : ~KeywordPresent(TypePriority[j], cl))
                 => ct = TypePriority[k]

\* an Employment keyword together with a keyword of a later category
C8_Witness ==
    /\ Reported /\ variant = "app"
    /\ KeywordPresent("Employment Agreement", clause_lower)
    /\ KeywordPresent("Purchase Agreement", clause_lower)
    /\ result.summary.contractType = "Employment Agreement"

\* the names of the missing-protection entries returned to the caller
ReturnedMissing ==
    IF variant = "simple" THEN result.missingElements
    ELSE [i \in 1..Len(result.detailedAnalysis.missingProtections) |->
             result.detailedAnalysis.missingProtections[i].element]

\* the names of the missing-protection entries produced, before truncation
ProducedMissing ==
    IF variant = "simple" THEN detected.missing
    ELSE [i \in 1..Len(missing_protections) |-> missing_protections[i].element]

\* the number of entries in names that name the protection (in any letter case)
CountNamed(names, stems) ==
    Cardinality({i \in 1..Len(names) : \E k \in 1..Len(stems) : ContainsAnyCase(stems[k], names[i])})

\* C9: every report of app.py and of simple_gradio_app.py on a clause that
\* contains neither "governing law" nor "applicable law" has the governing
\* law entry in the missing-protection list it returns.
C9_GoverningLawGapAlwaysReturned ==
    (Reported /\ variant \in {"app", "simple"}
       /\ ~ContainsAnyCase("governing law", clause_text)
       /\ ~ContainsAnyCase("applicable law", clause_text)) =>
        CountNamed(ReturnedMissing, <<"governing law">>) >= 1

\* the five protections: the keywords whose absence is the gap, and the
\* words by which an entry names the protection
Protections ==
    << [keywords |-> <<"governing law", "applicable law">>, named |-> <<"governing law">>],
       [keywords |-> <<"dispute", "arbitration", "litigation">>, named |-> <<"dispute resolution">>],
       [keywords |-> <<"amendment", "modification">>, named |-> <<"amendment">>],
       [keywords |-> <<"severability", "severable">>, named |-> <<"severab">>],
       [keywords |-> <<"entire agreement", "integration">>,
        named |-> <<"entire agreement", "integration">>] >>

\* one entry for the protection if none of its keywords is in the clause, else none
GapReported(p) ==
    CountNamed(ProducedMissing, p.named)
        = IF AnyIn(p.keywords, Lower(clause_text)) THEN 0 ELSE 1

\* C10 as stated: in every report of app.py and simple_gradio_app.py each of
\* the five protections has exactly one entry when none of its keywords is
\* in the clause and none otherwise.
C10_AllFiveProtectionsChecked ==
    (Reported /\ variant \in {"app", "simple"}) =>
        \A g \in 1..Len(Protections) : GapReported(Protections[g])

\* the protections a variant checks, as indexes into Protections
CheckedProtections(v) == IF v = "simple" THEN {1, 2, 3} ELSE {1, 2}

\* C10 amended: governing law and dispute resolution are checked by app.py
\* and simple_gradio_app.py, the amendment procedure by simple_gradio_app.py
\* only, severability and the integration clause by neither.  A checked
\* protection has exactly one entry in the produced list when none of its
\* keywords is in the lowercased clause and none otherwise; an unchecked
\* protection never has an entry.
C10_CheckedProtections ==
    (Reported /\ variant \in {"app", "simple"}) =>
        \A g \in 1..Len(Protections) :
            IF g \in CheckedProtections(variant)
            THEN GapReported(Protections[g])
            ELSE CountNamed(ProducedMissing, Protections[g].named) = 0

\* simple_gradio_app.py on a clause with "amendment" and without the other
\* keywords: the governing law and dispute entries, no amendment entry
C10_Witness ==
    /\ Reported /\ variant = "simple"
    /\ Contains("amendment", clause_lower)
    /\ CountNamed(ProducedMissing, <<"governing law">>) = 1
    /\ CountNamed(ProducedMissing, <<"dispute resolution">>) = 1
    /\ CountNamed(ProducedMissing, <<"amendment">>) = 0

\* the names of the missing groups of variant v, in the order of its absence
\* checks, for the lowercased clause cl
MissingGroups(v, cl) ==
    IF v = "simple"
    THEN (IF AnyIn(<<"governing law", "applicable law">>, cl) THEN <<>> ELSE <<"Governing law clause">>)
         \o (IF AnyIn(<<"dispute", "arbitration", "litigation">>, cl) THEN <<>>
             ELSE <<"Dispute resolution mechanism">>)
         \o (IF AnyIn(<<"amendment", "modification">>, cl) THEN <<>>
             ELSE <<"Contract amendment procedures">>)
    ELSE (IF AnyIn(<<"governing law", "applicable law">>, cl) THEN <<>> ELSE <<"Governing Law Clause">>)
         \o (IF AnyIn(<<"dispute", "arbitration", "litigation">>, cl) THEN <<>>
             ELSE <<"Dispute Resolution Mechanism">>)
         \o (IF Contains("liability", cl) /\ ~AnyIn(<<"limit", "cap", "exclude">>, cl)
             THEN <<"Liability Limitations">> ELSE <<>>)

\* the first n elements of xs, or all of xs when it is shorter
Prefix(xs, n) == [i \in 1..(IF Len(xs) < n THEN Len(xs) ELSE n) |-> xs[i]]

\* C11: the missing-protection list returned by app.py (N = 3) and by
\* simple_gradio_app.py (N = 4) is the first N missing groups in the order of
\* the absence checks: no earlier group is dropped while a later one is
\* kept, and no other entry takes one of the N places.
C11_ReturnedMissingIsPrefixOfGroups ==
    (Reported /\ variant \in {"app", "simple"}) =>
        ReturnedMissing
            = Prefix(MissingGroups(variant, Lower(clause_text)),
                     IF variant = "app" THEN 3 ELSE 4)

\* the elements of a sequence
Range(xs) == {xs[i] : i \in 1..Len(xs)}

\* the number of positions of xs that hold x
Occurrences(xs, x) == Cardinality({i \in 1..Len(xs) : xs[i] = x})

\* C12: in every report of the catalog-driven variants the recommendation of
\* a finding is in recommendations.immediate exactly when the finding's
\* riskLevel is HIGH or CRITICAL and in recommendations.general exactly when
\* it is not; it is listed once, in one bucket, and the buckets hold nothing
\* but the recommendations of the findings.
C12_RecommendationSplitByRiskLevel ==
    (Reported /\ variant \in Enhanced) =>
        LET findings == result.detailedAnalysis.ambiguities \o result.detailedAnalysis.risks
            immediate == result.recommendations.immediate
            general == result.recommendations.general
        IN /\ \A i \in 1..Len(findings) :
                 /\ (findings[i].recommendation \in Range(immediate))
                       <=> (findings[i].riskLevel \in {"HIGH", "CRITICAL"})
                 /\ (findings[i].recommendation \in Range(general))
                       <=> (findings[i].riskLevel \notin {"HIGH", "CRITICAL"})
                 /\ Occurrences(immediate \o general, findings[i].recommendation) = 1
           /\ Range(immediate) \cup Range(general)
                 = {findings[i].recommendation : i \in 1..Len(findings)}

\* a report with a MEDIUM finding in the general bucket next to HIGH or
\* CRITICAL findings in the immediate bucket
C12_Witness ==
    /\ Reported /\ variant \in Enhanced
    /\ Len(result.recommendations.general) >= 1
    /\ Len(result.recommendations.immediate) >= 1
    /\ \E i \in 1..Len(result.detailedAnalysis.ambiguities) :
          /\ result.detailedAnalysis.ambiguities[i].riskLevel = "MEDIUM"
          /\ result.detailedAnalysis.ambiguities[i].recommendation
                \in Range(result.recommendations.general)

\* s begins with t
StartsWith(s, t) == Len(s) >= Len(t) /\ SubSeq(s, 1, Len(t)) = t

\* the line that states a total of n issues: none, one (singular), several (plural)
StatedCountLine(n) ==
    IF n = 0 THEN "No major legal issues detected in this clause"
    ELSE IF n = 1 THEN "Found 1 legal concern requiring attention"
    ELSE "Found " \o ToString(n) \o " legal concerns requiring attention"

\* a line that states an issue count
IsCountLine(s) == StartsWith(s, "Found ") \/ StartsWith(s, "No major legal issues")

\* C13: in every report of app.py, api/analyze.py and api/index.py the first
\* line of summary.keyFindings states summary.totalIssues, in the singular for
\* one issue and in the plural for more than one, and no further line states
\* a count.
C13_CountLineSingularOrPlural ==
    (Reported /\ variant \in Enhanced) =>
        LET kf == result.summary.keyFindings
        IN /\ Len(kf) >= 1
           /\ kf[1] = StatedCountLine(result.summary.totalIssues)
           /\ \A i \in 2..Len(kf) : ~IsCountLine(kf[i])

\* the risk warning line for severity sev, after its leading warning sign
IsWarningLine(s, sev) ==
    Contains(sev \o " RISK: Immediate legal review strongly recommended", s)

\* the contract-type detection line for contract type ctype
IsDetectionLine(s, ctype) == s = "Detected as " \o ctype \o " - specialized analysis applied"

\* the positions of kf that hold a line of the kind P
Positions(kf, P(_)) == {i \in 1..Len(kf) : P(kf[i])}

\* C14: in every report, keyFindings holds the risk warning line exactly when
\* overallSeverity is HIGH or CRITICAL and the detection line exactly when
\* contractType is not "General Contract"; the count line is first, the
\* warning line comes before the detection line, each occurs at most once and
\* there is no other line, so keyFindings has one to three entries.
C14_KeyFindingsLinesAndOrder ==
    (Reported /\ variant \in Enhanced) =>
        LET kf == result.summary.keyFindings
            sev == result.summary.overallSeverity
            ct == result.summary.contractType
            warn == Positions(kf, LAMBDA s : \E l \in Range(RiskLevels) : IsWarningLine(s, l))
            det == Positions(kf, LAMBDA s : StartsWith(s, "Detected as "))
        IN /\ Len(kf) \in 1..3
           /\ IsCountLine(kf[1])
           /\ (warn # {}) <=> (sev \in {"HIGH", "CRITICAL"})
           /\ (det # {}) <=> (ct # "General Contract")
           /\ Cardinality(warn) <= 1 /\ Cardinality(det) <= 1
           /\ \A i \in warn : IsWarningLine(kf[i], sev)
           /\ \A i \in det : IsDetectionLine(kf[i], ct)
           /\ \A i \in warn : \A j \in det : i < j
           /\ warn \cup det = 2..Len(kf)

\* a report with all three lines, and the call is one of app.py
C14_Witness ==
    /\ Reported /\ variant = "app"
    /\ Len(result.summary.keyFindings) = 3
    /\ IsWarningLine(result.summary.keyFindings[2], result.summary.overallSeverity)
    /\ IsDetectionLine(result.summary.keyFindings[3], result.summary.contractType)

\* the legalReferences list returned to the caller
ReturnedReferences ==
    IF variant = "simple" THEN result.references ELSE result.legalReferences

\* the fixed base references of a variant
BaseReferences(v) ==
    IF v = "simple"
    THEN {"Restatement (Second) of Contracts", "Uniform Commercial Code (UCC)"}
    ELSE {"Restatement (Second) of Contracts"}

\* C15: in every report of app.py and simple_gradio_app.py the returned
\* references hold every base reference (truncation removes none), hold the
\* Federal Arbitration Act entry whenever the lowercased clause contains
\* "arbitration", and number at most 4 in app.py and 3 in simple_gradio_app.py.
C15_ReferencesBaseArbitrationAndLimit ==
    (Reported /\ variant \in {"app", "simple"}) =>
        /\ BaseReferences(variant) \subseteq Range(ReturnedReferences)
        /\ Contains("arbitration", Lower(clause_text)) =>
              \E i \in 1..Len(ReturnedReferences) :
                  Contains("Federal Arbitration Act", ReturnedReferences[i])
        /\ Len(ReturnedReferences) <= (IF variant = "app" THEN 4 ELSE 3)

\* the last element of a non-empty sequence
Last(xs) == xs[Len(xs)]

\* the except clause has run
Caught == Len(trace) >= 1 /\ StartsWith(Last(trace), "except ")

\* the message of the exception the except clause caught
CaughtMessage == SubSeq(Last(trace), Len("except ") + 1, Len(Last(trace)))

\* "except ..." occurs in the trace only as its last element and no step ran twice
NotRetried ==
    /\ \A i \in 1..(Len(trace) - 1) : ~StartsWith(trace[i], "except ")
    /\ \A i, j \in 1..Len(trace) : i # j => trace[i] # trace[j]

\* C16: when a statement inside the try block of app.py, api/analyze.py or
\* api/index.py raises an exception (a str-in-bytes test while matching, or
\* a fault at any step from lowercasing to report assembly), the call returns
\* the fallback report: error is "Analysis failed: " followed by the
\* exception's message, summary holds only overallSeverity "UNKNOWN",
\* recommendations holds only immediate with the one retry text, there is no
\* detailedAnalysis, so none of the findings collected before the exception,
\* and no step runs again after the except clause.
C16_ExceptionGivesFallbackReport ==
    /\ (variant \in Enhanced /\ Caught) =>
          /\ pc = "done"
          /\ exception = NoException
          /\ DOMAIN result = {"error", "summary", "recommendations", "metadata"}
          /\ result.error = "Analysis failed: " \o CaughtMessage
          /\ result.summary = [overallSeverity |-> "UNKNOWN"]
          /\ result.recommendations
                = [immediate |-> <<"Please retry the analysis or consult legal counsel">>]
          /\ NotRetried
    /\ (variant \in Enhanced /\ clause_type = "bytes" /\ pc = "done"
          /\ ~OnlyWhitespace(clause_text)) => Caught

\* an exception with a message was caught when findings had been collected
C16_Witness ==
    /\ variant \in Enhanced /\ pc = "done" /\ Caught
    /\ CaughtMessage = "out of memory"
    /\ Len(ambiguities) >= 1 /\ Len(risks) >= 1
    /\ result.summary.overallSeverity = "UNKNOWN"

\* the three results of a call: the validation error, the fallback report, a report
WellFormedResult ==
    \/ result = [error |-> "Please provide a clause to analyze"]
    \/ "error" \in DOMAIN result /\ StartsWith(result.error, "Analysis failed: ")
    \/ "error" \notin DOMAIN result /\ "pending" \notin DOMAIN result

\* C17: whatever the argument (empty, whitespace, text, None, or a value of
\* another type), no call raises an exception to its caller, and a call that
\* has ended has returned the validation error, the fallback report or a
\* report.
C17_NeverRaisesToCaller ==
    /\ pc # "raised"
    /\ exception = NoException
    /\ pc = "done" => WellFormedResult

\* two returned values agree on everything but metadata.analysisDate
SameAnalysis(r1, r2) ==
    IF "error" \in DOMAIN r1 \/ "error" \in DOMAIN r2
    THEN r1 = r2
    ELSE /\ r1.detailedAnalysis.ambiguities = r2.detailedAnalysis.ambiguities
         /\ r1.detailedAnalysis.risks = r2.detailedAnalysis.risks
         /\ r1.detailedAnalysis.missingProtections = r2.detailedAnalysis.missingProtections
         /\ r1.summary.overallSeverity = r2.summary.overallSeverity
         /\ r1.summary.totalIssues = r2.summary.totalIssues
         /\ r1.summary.keyFindings = r2.summary.keyFindings
         /\ r1.summary.contractType = r2.summary.contractType
         /\ r1.recommendations = r2.recommendations

\* C18: in a sequence of calls of one function, a call returns the same
\* ambiguities, risks, missingProtections, overallSeverity, totalIssues,
\* keyFindings, recommendations and contractType as every earlier call with
\* the same clause text, whatever calls came in between and whatever the
\* clock shows.
C18_SameClauseSameAnalysis ==
    pc = "done" =>
        \A i \in 1..Len(returned) :
            returned[i].clause_text = clause_text => SameAnalysis(returned[i].result, result)

\* the third call repeats the clause of the first, after a call with another
\* clause that has findings, one second later: the same findings, another date
C18_Witness ==
    /\ pc = "done" /\ Reported /\ Len(returned) = 2
    /\ returned[1].clause_text = clause_text
    /\ returned[2].clause_text # clause_text
    /\ "error" \notin DOMAIN returned[2].result
    /\ returned[2].result.summary.totalIssues >= 1
    /\ result.summary.totalIssues >= 2
    /\ result.metadata.analysisDate # returned[1].result.metadata.analysisDate
    /\ SameAnalysis(returned[1].result, result)

\* the label the classifier keywords alone give the lowercased clause cl in
\* variant v: that of the category of least index with a keyword in cl
KeywordLabel(v, cl) ==
    LET cats == Categories(v)
        hits == {k \in 1..Len(cats) : \E t \in 1..Len(cats[k].terms) : Contains(cats[k].terms[t], cl)}
    IN IF hits = {} THEN "General Contract"
       ELSE cats[CHOOSE k \in hits : \A j \in hits : k <= j].label

\* a weight-4 entry of the high-risk catalog of variant v (the unlimited
\* liability pattern is the only one) is found in cl
UnlimitedLiabilityMatches(v, cl) ==
    \E i \in 1..Len(high_risk_patterns(v)) :
        /\ high_risk_patterns(v)[i].risk = 4
        /\ high_risk_patterns(v)[i].name = "Unlimited liability exposure"
        /\ ReSearch(high_risk_patterns(v)[i].pattern, cl)

\* C19: whenever the unlimited-liability pattern (weight 4) matches, the
\* report's overallSeverity is CRITICAL whatever else matches, each of the
\* irrevocable-assignment, unlimited-duration and audit-waiver patterns that
\* matches as well has its own risk finding, and contractType is the label
\* the classifier keywords alone determine.
C19_UnlimitedLiabilityForcesCritical ==
    (Reported /\ variant \in Enhanced /\ UnlimitedLiabilityMatches(variant, Lower(clause_text))) =>
        /\ result.summary.overallSeverity = "CRITICAL"
        /\ CountIssue(result.detailedAnalysis.risks,
                      "High-risk clause: Unlimited liability exposure") = 1
        /\ (/\ Contains("irrevocably assign", Lower(clause_text))
            /\ Contains("in perpetuity", Lower(clause_text))
            /\ Contains("waiver of audit rights", Lower(clause_text)))
              => Len(result.detailedAnalysis.risks) >= 3
        /\ result.summary.contractType = KeywordLabel(variant, Lower(clause_text))

\* the scenario with an Employment keyword and a low-weight term: at least
\* three risk findings, CRITICAL, and the type the keyword gives
C19_Witness ==
    /\ Reported /\ variant = "app"
    /\ Contains("unlimited liability", clause_lower)
    /\ Contains("waiver of audit rights", clause_lower)
    /\ Len(result.detailedAnalysis.risks) >= 3
    /\ result.summary.overallSeverity = "CRITICAL"
    /\ result.summary.contractType = "Employment Agreement"

\* the issue texts of the findings a clause has by the catalogs of variant v:
\* the ambiguous terms in cl and the high-risk patterns found in cl
MatchedTerms(v, cl) ==
    {ambiguous_patterns(v)[i].term : i \in {k \in 1..Len(ambiguous_patterns(v)) :
                                              Contains(ambiguous_patterns(v)[k].term, cl)}}

MatchedPatterns(v, cl) ==
    {high_risk_patterns(v)[i].name : i \in {k \in 1..Len(high_risk_patterns(v)) :
                                              ReSearch(high_risk_patterns(v)[k].pattern, cl)}}

\* C20: a report on a clause whose only catalog matches are "reasonable" and
\* "timely" and that has no classifier keyword lists exactly these two
\* ambiguity findings and no risk finding, with overallSeverity MEDIUM and
\* contractType "General Contract"; and every report whose matched weights
\* are all 2 (at least one) has overallSeverity MEDIUM.
C20_WeightsTwoGiveMedium ==
    (Reported /\ variant \in Enhanced) =>
        LET cl == Lower(clause_text)
            ws == MatchedWeights(variant, cl)
        IN /\ (/\ MatchedTerms(variant, cl) = {"reasonable", "timely"}
               /\ MatchedPatterns(variant, cl) = {}
               /\ KeywordLabel(variant, cl) = "General Contract") =>
                  /\ Len(result.detailedAnalysis.ambiguities) = 2
                  /\ {result.detailedAnalysis.ambiguities[i].issue : i \in 1..2}
                        = {"Ambiguous term: \"reasonable\"", "Ambiguous term: \"timely\""}
                  /\ result.detailedAnalysis.risks = <<>>
                  /\ result.summary.totalIssues = 2
                  /\ result.summary.overallSeverity = "MEDIUM"
                  /\ result.summary.contractType = "General Contract"
           /\ (Len(ws) >= 1 /\ \A i \in 1..Len(ws) : ws[i] = 2) =>
                  result.summary.overallSeverity = "MEDIUM"

\* the scenario: "reasonable" and "timely" alone, in app.py
C20_Witness ==
    /\ Reported /\ variant = "app"
    /\ DOMAIN risk_scores = {"reasonable", "timely"}
    /\ risks = <<>>
    /\ result.summary.overallSeverity = "MEDIUM"
    /\ result.summary.contractType = "General Contract"

\* the value one of the catalog-driven functions returns for a str clause at
\* clock t when nothing else runs: the composition of its steps
ReturnedAlone(v, text, t) ==
    IF OnlyWhitespace(text)
    THEN [error |-> "Please provide a clause to analyze"]
    ELSE LET cl == Lower(text)
             amb == ScanAmbiguous(ambiguous_patterns(v), 1, cl,
                                  [found |-> <<>>, scores |-> EmptyDict])
             rsk == ScanHighRisk(high_risk_patterns(v), 1, cl,
                                 [found |-> <<>>, scores |-> amb.scores])
             type == DetectContractType(v, cl)
             sev == Severity(rsk.scores)
             total == Len(amb.found) + Len(rsk.found)
             findings == amb.found \o rsk.found
         IN [summary |-> [contractType |-> type,
                          overallSeverity |-> sev,
                          totalIssues |-> total,
                          keyFindings |-> KeyFindings(v, total, sev, type)],
             detailedAnalysis |-> [ambiguities |-> amb.found,
                                   risks |-> rsk.found,
                                   missingProtections |->
                                       IF v = "app"
                                       THEN Take(MissingProtections(cl), MissingLimitApp)
                                       ELSE <<>>],
             recommendations |->
                 IF v = "app"
                 THEN [immediate |-> SelectRecommendations(findings, {"HIGH", "CRITICAL"}),
                       general |-> SelectRecommendations(findings, {"LOW", "MEDIUM"}),
                       missingElements |-> RecommendationsOf(MissingProtections(cl))]
                 ELSE [immediate |-> SelectRecommendations(findings, {"HIGH", "CRITICAL"}),
                       general |-> SelectRecommendations(findings, {"LOW", "MEDIUM"})],
             plainEnglishExplanation |-> [whatThisMeans |-> PlainEnglishOf(findings)],
             legalReferences |->
                 IF v = "app" THEN Take(LegalReferences(type, cl), ReferenceLimitApp)
                 ELSE <<"Restatement (Second) of Contracts", "Uniform Commercial Code (UCC)">>,
             metadata |-> [analysisVersion |->
                               CASE v = "app" -> "2.0-enhanced-production"
                                 [] v = "api_analyze" -> "2.0-enhanced-api"
                                 [] v = "api_index" -> "2.0-enhanced-vercel",
                           analysisDate |-> StrfTime(t)]]

\* the invocations that have returned, each with its clause and its value
ReturnedInvocations ==
    (IF pc = "done" THEN {[clause_text |-> clause_text, result |-> result]} ELSE {})
    \cup { [clause_text |-> suspended[i].clause_text, result |-> suspended[i].result] :
             i \in { j \in 1..Len(suspended) : suspended[j].pc = "done" } }

\* C21: whatever the interleaving of the steps of the invocations in flight,
\* every invocation that has returned has returned exactly the value the
\* function returns for its clause when it runs alone, no invocation raises,
\* and a suspended invocation finds its frame as it left it.
C21_InterleavedInvocationsAreIndependent ==
    /\ \A r \in ReturnedInvocations : r.result = ReturnedAlone(variant, r.clause_text, now)
    /\ pc # "raised"
    /\ \A i \in 1..Len(suspended) : suspended[i].pc # "raised"

\* two invocations with different clauses, both with findings, have both
\* returned after one was preempted while both were in mid-flight
C21_Witness ==
    /\ interleaved
    /\ Cardinality({ r \in ReturnedInvocations : "error" \notin DOMAIN r.result }) >= 2
    /\ \A i \in 1..Len(suspended) : suspended[i].pc = "done"
    /\ pc = "done"

\* the parsed body is a JSON object
BodyIsObject == JsonLoads(request.body).kind = "object"

\* do_POST is over: it has sent its response or an exception has left it
Handled == handler \in {"finished", "crashed"}

CorsHeaders ==
    {<<"Content-type", "application/json">>, <<"Access-Control-Allow-Origin", "*">>}

\* C22: every POST that has been handled has received exactly one response;
\* it is status 200 with the value the engine returned when the body is a
\* JSON object, and status 500 with only an error member otherwise; whether
\* or not the Content-Length header was sent and the body was valid JSON,
\* the response has Content-type application/json and
\* Access-Control-Allow-Origin: *.
C22_PostGetsOneJsonCorsResponse ==
    Handled =>
        /\ Len(responses) = 1
        /\ CorsHeaders \subseteq responses[1].headers
        /\ IF BodyIsObject
           THEN responses[1].status = 200 /\ responses[1].body = result
           ELSE responses[1].status = 500 /\ DOMAIN responses[1].body = {"error"}

\* the score keys of the catalog entries of variant v that match the lowercased clause cl
MatchedKeys(v, cl) ==
    LET amb == ambiguous_patterns(v)
        hr == high_risk_patterns(v)
    IN {amb[i].term : i \in {j \in 1..Len(amb) : Contains(amb[j].term, cl)}}
       \cup {hr[i].name : i \in {j \in 1..Len(hr) : ReSearch(hr[j].pattern, cl)}}

\* the scores without the entry of key k
WithoutKey(scores, k) == [x \in DOMAIN scores \ {k} |-> scores[x]]

\* some clause matches exactly the catalog entries keys
SomeClauseMatches(v, keys) == \E t \in Texts : MatchedKeys(v, Lower(t)) = keys

\* C23: in every report of the catalog-driven variants, overallSeverity is at
\* least the severity of every clause whose matches are the report's matches
\* but one: adding one matched entry to a set of matches never lowers the
\* overall severity.
C23_AddingAMatchNeverLowersSeverity ==
    (Reported /\ variant \in Enhanced) =>
        \A k \in DOMAIN risk_scores :
            \/ Rank(Severity(WithoutKey(risk_scores, k))) <= Rank(result.summary.overallSeverity)
            \/ ~SomeClauseMatches(variant, DOMAIN risk_scores \ {k})

\* C24: in every report of the catalog-driven variants, overallSeverity is at
\* least the riskLevel of every finding listed in ambiguities and risks, and
\* it is HIGH or CRITICAL whenever recommendations.immediate is not empty.
C24_SeverityAtLeastEveryFindingLevel ==
    (Reported /\ variant \in Enhanced) =>
        /\ \A f \in Range(result.detailedAnalysis.ambiguities \o result.detailedAnalysis.risks) :
              Rank(f.riskLevel) <= Rank(result.summary.overallSeverity)
        /\ result.recommendations.immediate # <<>> =>
              result.summary.overallSeverity \in {"HIGH", "CRITICAL"}

\* every score of the dictionary is w
AllScores(scores, w) == \A x \in DOMAIN scores : scores[x] = w

\* C23 amended: adding one matched entry lowers overallSeverity in one case
\* only, from CRITICAL to HIGH, when all the earlier matches have weight 3
\* (CRITICAL by the average alone) and the added entry weighs less than 3;
\* in every other case the severity stays or rises.
C23_AddingAMatchLowersOnlyCriticalByAverage ==
    (Reported /\ variant \in Enhanced) =>
        \A k \in DOMAIN risk_scores :
            \/ Rank(Severity(WithoutKey(risk_scores, k))) <= Rank(result.summary.overallSeverity)
            \/ /\ Severity(WithoutKey(risk_scores, k)) = "CRITICAL"
               /\ result.summary.overallSeverity = "HIGH"
               /\ AllScores(WithoutKey(risk_scores, k), 3)
               /\ risk_scores[k] < 3
            \/ ~SomeClauseMatches(variant, DOMAIN risk_scores \ {k})

\* a report with a weight-3 and a weight-1 match is HIGH, and the clause with
\* the weight-3 match alone exists and is CRITICAL
C23_Witness ==
    /\ Reported /\ variant \in Enhanced
    /\ result.summary.overallSeverity = "HIGH"
    /\ \E k \in DOMAIN risk_scores :
          /\ risk_scores[k] = 1
          /\ DOMAIN risk_scores # {k}
          /\ Severity(WithoutKey(risk_scores, k)) = "CRITICAL"
          /\ SomeClauseMatches(variant, DOMAIN risk_scores \ {k})

\* C24 amended: in every report of the catalog-driven variants, overallSeverity
\* is at most one level below the riskLevel of any listed finding, it is at
\* least MEDIUM whenever recommendations.immediate is not empty, and it is
\* CRITICAL whenever a finding of weight 4 is listed.
C24_SeverityAtMostOneLevelBelowFinding ==
    (Reported /\ variant \in Enhanced) =>
        /\ \A f \in Range(result.detailedAnalysis.ambiguities \o result.detailedAnalysis.risks) :
              Rank(f.riskLevel) <= Rank(result.summary.overallSeverity) + 1
        /\ result.recommendations.immediate # <<>> =>
              result.summary.overallSeverity \in {"MEDIUM", "HIGH", "CRITICAL"}
        /\ (\E k \in DOMAIN risk_scores : risk_scores[k] = 4) =>
              result.summary.overallSeverity = "CRITICAL"

\* a report whose findings are HIGH, with a recommendation in immediate, and
\* whose overallSeverity is MEDIUM
C24_Witness ==
    /\ Reported /\ variant \in Enhanced
    /\ result.summary.overallSeverity = "MEDIUM"
    /\ result.recommendations.immediate # <<>>
    /\ \E f \in Range(result.detailedAnalysis.ambiguities \o result.detailedAnalysis.risks) :
          f.riskLevel = "HIGH"

\* the severity step has run
SeverityComputed == pc = "key_findings" /\ DOMAIN risk_scores # {}

\* C25: for every non-empty collection of weights in 0..4 the computed
\* severity is LOW exactly when the maximum is at most 1, MEDIUM exactly when
\* the maximum is 2, HIGH exactly when the maximum is 3 and the average is
\* below 3.0, and CRITICAL exactly when the maximum is 4 or the average is
\* at least 3.0: the thresholds 2.5 and 1.5 on the average never decide.
C25_AverageThresholdsNeverDecide ==
    SeverityComputed =>
        LET max_risk == MaxValue(risk_scores)
            total == SumValues(risk_scores)
            n == Cardinality(DOMAIN risk_scores)
        IN /\ severity = "LOW" <=> max_risk <= 1
           /\ severity = "MEDIUM" <=> max_risk = 2
           /\ severity = "HIGH" <=> (max_risk = 3 /\ total < 3 * n)
           /\ severity = "CRITICAL" <=> (max_risk = 4 \/ total >= 3 * n)

\* weights 3 and 2: the average 2.5 reaches the second threshold, and the
\* maximum 3 alone already gives HIGH
C25_Witness ==
    /\ SeverityComputed
    /\ severity = "HIGH"
    /\ MaxValue(risk_scores) = 3
    /\ 2 * SumValues(risk_scores) = 5 * Cardinality(DOMAIN risk_scores)

\* the score keys of the catalog of variant v are pairwise distinct
ScoreKeysDistinct(v) ==
    Cardinality(DOMAIN CatalogWeights(v))
        = Len(ambiguous_patterns(v)) + Len(high_risk_patterns(v))

\* C26: in every report of the catalog-driven variants, totalIssues, the
\* number of findings in ambiguities and risks, the number of scores given
\* to the severity computation, the number of recommendations in immediate
\* and general together, and the number of whatThisMeans lines are all the
\* same number; no two catalog entries share a score key.
C26_CountsAgree ==
    (Reported /\ variant \in Enhanced) =>
        LET n == result.summary.totalIssues
        IN /\ n = Len(result.detailedAnalysis.ambiguities) + Len(result.detailedAnalysis.risks)
           /\ n = Cardinality(DOMAIN risk_scores)
           /\ n = Len(result.recommendations.immediate) + Len(result.recommendations.general)
           /\ n = Len(result.plainEnglishExplanation.whatThisMeans)
           /\ ScoreKeysDistinct(variant)

\* a report with ambiguities and several high-risk findings of different
\* levels, so that both recommendation lists are filled
C26_Witness ==
    /\ Reported /\ variant \in Enhanced
    /\ Len(result.detailedAnalysis.risks) >= 2
    /\ Len(result.detailedAnalysis.ambiguities) >= 1
    /\ result.recommendations.immediate # <<>>
    /\ result.recommendations.general # <<>>

\* the findings of a report: issue and riskLevel of every entry of
\* ambiguities and risks
FindingLevels(report) ==
    { [issue |-> f.issue, riskLevel |-> f.riskLevel] :
        f \in Range(report.detailedAnalysis.ambiguities \o report.detailedAnalysis.risks) }

\* C27: every report of api/index.py has the same finding issues with the
\* same riskLevel, the same overallSeverity, the same totalIssues and the
\* same contractType as the report of api/analyze.py on the same clause.
C27_HttpVariantsEquivalent ==
    (Reported /\ variant = "api_index" /\ clause_type = "str") =>
        LET other == ReturnedAlone("api_analyze", clause_text, now)
        IN /\ FindingLevels(result) = FindingLevels(other)
           /\ result.summary.overallSeverity = other.summary.overallSeverity
           /\ result.summary.totalIssues = other.summary.totalIssues
           /\ result.summary.contractType = other.summary.contractType

\* C28: every finding (issue and riskLevel) that api/analyze.py reports on a
\* clause is in the report of app.py on the same clause, and when
\* api/analyze.py gives a contract type other than "General Contract",
\* app.py gives the same one.
C28_AppExtendsApiAnalyze ==
    (Reported /\ variant = "app" /\ clause_type = "str") =>
        LET other == ReturnedAlone("api_analyze", clause_text, now)
        IN /\ FindingLevels(other) \subseteq FindingLevels(result)
           /\ other.summary.contractType # "General Contract" =>
                 result.summary.contractType = other.summary.contractType

\* a clause on which api/analyze.py reports findings and a contract type and
\* app.py reports these findings and more
C28_Witness ==
    /\ Reported /\ variant = "app" /\ clause_type = "str"
    /\ LET other == ReturnedAlone("api_analyze", clause_text, now)
       IN /\ FindingLevels(other) # {}
          /\ FindingLevels(other) # FindingLevels(result)
          /\ other.summary.contractType # "General Contract"

\* C29: in every analysis simple_gradio_app.py returns, the number stated in
\* keyFinding is the number of entries of the returned ambiguities list plus
\* the number of entries of the returned risks list.
C29_KeyFindingCountsReturnedEntries ==
    (pc = "done" /\ variant = "simple" /\ "keyFinding" \in DOMAIN result) =>
        result.keyFinding
            = "Legal analysis identified "
              \o ToString(Len(result.ambiguities) + Len(result.risks))
              \o " key concerns requiring attention"

\* c is a letter
IsLetter(c) == Contains(c, LowerLetters) \/ Contains(c, UpperLetters)

\* w occurs in s as a separate word: no letter right before or right after it
HasWord(w, s) ==
    \E i \in 1..(Len(s) - Len(w) + 1) :
        /\ SubSeq(s, i, i + Len(w) - 1) = w
        /\ (i = 1 \/ ~IsLetter(SubSeq(s, i - 1, i - 1)))
        /\ (i + Len(w) > Len(s) \/ ~IsLetter(SubSeq(s, i + Len(w), i + Len(w))))

\* C30: every report of app.py on a clause that contains "unlimited
\* liability" (in any letter case) and none of the words "limit", "cap" and
\* "exclude" as separate words lists "Liability Limitations" among
\* detailedAnalysis.missingProtections.
C30_UnlimitedLiabilityReportsLiabilityGap ==
    (Reported /\ variant = "app" /\ clause_type = "str"
       /\ ContainsAnyCase("unlimited liability", clause_text)
       /\ ~HasWord("limit", Lower(clause_text))
       /\ ~HasWord("cap", Lower(clause_text))
       /\ ~HasWord("exclude", Lower(clause_text))) =>
        \E i \in 1..Len(result.detailedAnalysis.missingProtections) :
            result.detailedAnalysis.missingProtections[i].element = "Liability Limitations"

====
